---- MODULE Spec2Model ----
(***************************************************************************)
(* A model of tutor-contrib-recon: the VJSON codec (decoder, encoder,      *)
(* escape), the functional facade (loads, dumps, dump) and the override    *)
(* tree (sequence, module, reference, template, JSON config).              *)
(*                                                                         *)
(* Strings are sequences of characters, so that the two-character control  *)
(* sequences of the decoder are computed by slicing, as the code does.     *)
(* A word such as "src" stands for a run of characters that contains no    *)
(* marker and no path separator.                                           *)
(***************************************************************************)
EXTENDS Integers, Sequences, FiniteSets, TLC

VARIABLES
    fs,        \* the files on disk: resolved path -> content
    location,  \* the `location` given to the decoder and the encoder
    text,      \* the JSON document in hand (parsed text), or NOTHING
    val,       \* the in-memory value tree in hand, or NOTHING
    prev,      \* the in-memory tree the document in hand was produced from
    hist,      \* the names of the operations performed so far, in order
    op,        \* the last operation, with its arguments
    err,       \* the exception the last operation raised, or "none"
    fs0,       \* the files on disk before the last operation
    given,     \* the document or tree the caller started from
    todo,      \* override sweep: the calls still to be made, in order
    applied,   \* override sweep: positions of the applied leaves, in order
    sweep      \* override sweep: "idle", "running", "done" or "raised"

vars == <<fs, location, text, val, prev, hist, op, err, fs0, given,
          todo, applied, sweep>>

(***************************************************************************)
(* Bounds of the model.                                                    *)
(***************************************************************************)
MaxStrLen == 3
MaxNest == 2
MaxRefDepth == 2
MaxOps == 3
MaxLeaves == 3
MaxVal == 2

(***************************************************************************)
(* Constants of the program.                                               *)
(***************************************************************************)
MARKER == "$"

NOTHING == [k |-> "NOTHING"]
IGNORE == [k |-> "IGNORE"]
CUSTOM_TYPE == [k |-> "CUSTOM_TYPE"]

(***************************************************************************)
(* Values: JSON primitives, lists, dicts, and the objects of the program.  *)
(***************************************************************************)
Str(s) == [k |-> "str", s |-> s]
Num(n) == [k |-> "num", n |-> n]
List(items) == [k |-> "list", items |-> items]
Dict(pairs) == [k |-> "dict", pairs |-> pairs]
Pair(key, value) == [key |-> key, val |-> value]
Class(id) == [k |-> "class", id |-> id]
PathV(p) == [k |-> "path", p |-> p]
W(word) == Str(<<word>>)

Ok(v, f) == [err |-> "none", v |-> v, fs |-> f]
Raise(e, f) == [err |-> e, v |-> NOTHING, fs |-> f]
\* An exception ends the caller as well; otherwise the caller goes on.
Bind(r, Then(_)) == IF r.err # "none" THEN r ELSE Then(r)

Keys(pairs) == {pairs[i].key : i \in 1..Len(pairs)}
HasKey(pairs, key) == \E i \in 1..Len(pairs) : pairs[i].key = key
Lookup(pairs, key) == pairs[CHOOSE i \in 1..Len(pairs) : pairs[i].key = key].val
DictSet(pairs, key, value) ==
    IF HasKey(pairs, key)
    THEN [i \in 1..Len(pairs) |->
            IF pairs[i].key = key THEN Pair(key, value) ELSE pairs[i]]
    ELSE Append(pairs, Pair(key, value))
DictPop(pairs, key) == SelectSeq(pairs, LAMBDA p : p.key # key)

StartsWith(s, c) == Len(s) >= 1 /\ s[1] = c
Take2(s) == SubSeq(s, 1, IF Len(s) < 2 THEN Len(s) ELSE 2)
Drop(s, n) == SubSeq(s, n + 1, Len(s))

(***************************************************************************)
(* pathlib: a path is its root (0 relative, 1 "/", 2 "//") and its parts.  *)
(***************************************************************************)
RECURSIVE SplitParts(_, _, _, _)
SplitParts(s, i, cur, acc) ==
    LET flush == IF cur = <<>> \/ cur = <<".">> THEN acc ELSE Append(acc, cur)
    IN  IF i > Len(s) THEN flush
        ELSE IF s[i] = "/" THEN SplitParts(s, i + 1, <<>>, flush)
        ELSE SplitParts(s, i + 1, Append(cur, s[i]), acc)

RECURSIVE LeadingSlashes(_, _)
LeadingSlashes(s, i) ==
    IF i <= Len(s) /\ s[i] = "/" THEN 1 + LeadingSlashes(s, i + 1) ELSE 0

Path(s) ==
    LET n == LeadingSlashes(s, 1)
    IN  [root |-> IF n = 0 THEN 0 ELSE IF n = 2 THEN 2 ELSE 1,
         parts |-> SplitParts(s, 1, <<>>, <<>>)]

RECURSIVE JoinParts(_, _)
JoinParts(parts, i) ==
    IF i > Len(parts) THEN <<>>
    ELSE parts[i] \o (IF i < Len(parts) THEN <<"/">> ELSE <<>>)
         \o JoinParts(parts, i + 1)

PathStr(p) ==
    IF p.root = 0 /\ p.parts = <<>> THEN <<".">>
    ELSE (IF p.root = 2 THEN <<"/", "/">> ELSE IF p.root = 1 THEN <<"/">> ELSE <<>>)
         \o JoinParts(p.parts, 1)

is_absolute(p) == p.root > 0
Join(a, b) == IF is_absolute(b) THEN b
              ELSE [root |-> a.root, parts |-> a.parts \o b.parts]
parent(p) == IF p.parts = <<>> THEN p
             ELSE [root |-> p.root, parts |-> SubSeq(p.parts, 1, Len(p.parts) - 1)]
IsUnder(p, to) ==
    /\ p.root = to.root
    /\ Len(to.parts) <= Len(p.parts)
    /\ SubSeq(p.parts, 1, Len(to.parts)) = to.parts
relative_to(p, to) ==
    [root |-> 0, parts |-> SubSeq(p.parts, Len(to.parts) + 1, Len(p.parts))]

(***************************************************************************)
(* The file system.  A file is named by its resolved path; directories are *)
(* the fixed ones below and the ancestors of the files.                    *)
(***************************************************************************)
Cwd == [root |-> 1, parts |-> << <<"w">> >>]
Resolve(p) == IF p.root = 0 THEN [root |-> 1, parts |-> Cwd.parts \o p.parts]
              ELSE [root |-> 1, parts |-> p.parts]

JsonFile(v) == [k |-> "json", v |-> v]
EmptyFile == [k |-> "empty"]
PartialFile == [k |-> "partial"]

IsFile(f, p) == Resolve(p) \in DOMAIN f
IsProperPrefix(a, b) ==
    Len(a.parts) < Len(b.parts) /\ SubSeq(b.parts, 1, Len(a.parts)) = a.parts
BaseDirs == {[root |-> 1, parts |-> <<>>], Cwd,
             [root |-> 1, parts |-> << <<"r">> >>]}
IsDir(f, p) ==
    \/ Resolve(p) \in BaseDirs
    \/ \E q \in DOMAIN f : IsProperPrefix(Resolve(p), q)
exists(f, p) == IsFile(f, p) \/ IsDir(f, p)
UnderAFile(f, p) == \E q \in DOMAIN f : IsProperPrefix(q, Resolve(p))
WriteFile(f, p, content) ==
    [q \in DOMAIN f \cup {Resolve(p)} |->
        IF q = Resolve(p) THEN content ELSE f[q]]
RemoveFile(f, p) == [q \in DOMAIN f \ {Resolve(p)} |-> f[q]]

(***************************************************************************)
(* The custom-type registry and the constructors of the registered types.  *)
(***************************************************************************)
named_types ==
    {"override-sequence", "override-module", "override-reference",
     "template", "tutor", "json"}

Required(id) ==
    CASE id = "override-module" -> {W("info")}
      [] id = "override-reference" -> {W("override")}
      [] id = "template" -> {W("src"), W("dest")}
      [] id \in {"tutor", "json"} -> {W("overrides"), W("target")}
      [] OTHER -> {}
Optional(id) ==
    IF id \in {"override-sequence", "override-module"} THEN {W("overrides")}
    ELSE {}

Falsy(v) ==
    \/ v.k = "str" /\ v.s = <<>>
    \/ v.k = "list" /\ v.items = <<>>
    \/ v.k = "dict" /\ v.pairs = <<>>
    \/ v.k = "num" /\ v.n = 0
    \/ v.k = "remote" /\ v.pairs = <<>>

Custom(id, fields, target) ==
    [k |-> "custom", type |-> id, fields |-> fields, target |-> target]
Remote(target, pairs) == [k |-> "remote", target |-> target, pairs |-> pairs]

by_type_id(value, f) ==
    IF value.k \in {"dict", "list"} THEN Raise("TypeError", f)
    ELSE IF value.k = "str" /\ Len(value.s) = 1 /\ value.s[1] \in named_types
    THEN Ok(Class(value.s[1]), f)
    ELSE Raise("KeyError", f)

FieldOrder(id) ==
    CASE id = "override-sequence" -> <<W("overrides")>>
      [] id = "override-module" -> <<W("overrides"), W("info")>>
      [] id = "override-reference" -> <<W("override")>>
      [] id = "template" -> <<W("src"), W("dest")>>
      [] OTHER -> <<W("overrides"), W("target")>>

from_object(cls, obj, f) ==
    LET id == cls.id
        attr(name) ==
            IF name = W("overrides") /\ id \in {"override-sequence", "override-module"}
               /\ (~HasKey(obj, name) \/ Falsy(Lookup(obj, name)))
            THEN List(<<>>)
            ELSE Lookup(obj, name)
    IN  IF Required(id) \subseteq Keys(obj)
           /\ Keys(obj) \subseteq Required(id) \cup Optional(id)
        THEN Ok(Custom(id, [i \in 1..Len(FieldOrder(id)) |->
                              Pair(FieldOrder(id)[i], attr(FieldOrder(id)[i]))],
                       NOTHING), f)
        ELSE Raise("TypeError", f)

(***************************************************************************)
(* format.escape                                                           *)
(***************************************************************************)
RECURSIVE escape(_)
escape(value) ==
    IF value.k = "str" /\ StartsWith(value.s, MARKER)
    THEN Str(<<MARKER>> \o value.s)
    ELSE IF value.k \in {"dict", "remote"}
    THEN Dict([i \in 1..Len(value.pairs) |->
                 Pair(value.pairs[i].key, escape(value.pairs[i].val))])
    ELSE value

(***************************************************************************)
(* VJSONDecoder                                                            *)
(***************************************************************************)
CSM == {<<MARKER, MARKER>>, <<MARKER, "#">>, <<MARKER, "t">>,
        <<MARKER, "+">>, <<MARKER, ".">>, <<MARKER, "/">>}

expand_escaped_lstrip(value, key, f) ==
    IF key = NOTHING THEN Ok(Str(Drop(value.s, 2)), f)
    ELSE Ok(Pair(Str(Drop(key.s, 2)), value), f)

expand_escaped(value, key, f) ==
    IF key = NOTHING THEN Ok(Str(Drop(value.s, 1)), f)
    ELSE Ok(Pair(Str(Drop(key.s, 1)), value), f)

expand_comment_unchecked(value, key, f) ==
    IF key # NOTHING THEN Ok(Pair(key, IGNORE), f) ELSE Ok(IGNORE, f)

expand_comment(value, key, f) ==
    IF key # NOTHING THEN Raise("AssertionError", f) ELSE Ok(IGNORE, f)

expand_custom_type(value, key, f) ==
    IF key # Str(<<MARKER, "t">>) THEN Raise("AssertionError", f)
    ELSE Bind(by_type_id(value, f), LAMBDA r : Ok(Pair(CUSTOM_TYPE, r.v), f))

RECURSIVE decode_value(_, _, _, _)
RECURSIVE decode_items(_, _, _, _, _, _)
RECURSIVE decode_pairs(_, _, _, _, _, _)
RECURSIVE object_hook(_, _, _, _)
RECURSIVE expand_all(_, _, _, _, _, _)
RECURSIVE expand(_, _, _, _)
RECURSIVE csm(_, _, _, _, _, _)
RECURSIVE load_custom_or_remote(_, _, _)
RECURSIVE expand_object_reference(_, _, _, _, _)

remote_mapping(path, r) ==
    IF r.v.k = "custom" THEN r
    ELSE IF r.v.k = "dict"
            /\ HasKey(r.v.pairs, W("target"))
            /\ ~HasKey(r.v.pairs, W("remote_reference"))
    THEN Ok(Remote(Lookup(r.v.pairs, W("target")),
                   <<Pair(W("remote_reference"), PathV(path))>>
                   \o DictPop(r.v.pairs, W("target"))), r.fs)
    ELSE Raise("TypeError", r.fs)

load_custom_or_remote(path, f, fuel) ==
    IF ~exists(f, path)
    THEN IF UnderAFile(f, path) THEN Raise("OSError", f)
         ELSE Raise("TypeError", WriteFile(f, path, JsonFile(Dict(<<>>))))
    ELSE IF ~IsFile(f, path) THEN Raise("OSError", f)
    ELSE IF f[Resolve(path)].k # "json" THEN Raise("ValueError", f)
    ELSE IF fuel = 0 THEN Raise("RecursionError", f)
    ELSE Bind(decode_value(f[Resolve(path)].v, parent(path), f, fuel - 1),
              LAMBDA r : remote_mapping(path, r))

expand_object_reference(value, key, loc, f, fuel) ==
    IF key # NOTHING THEN Raise("AssertionError", f)
    ELSE LET path == Path(Drop(value.s, 2))
         IN  IF is_absolute(path) THEN load_custom_or_remote(path, f, fuel)
             ELSE IF loc = NOTHING THEN Raise("ValueError", f)
             ELSE load_custom_or_remote(Join(loc, path), f, fuel)

expand_absolute(value, key, loc, f, fuel) ==
    IF key # NOTHING THEN Raise("AssertionError", f)
    ELSE LET p0 == Path(Drop(value.s, 2))
             path == IF is_absolute(p0) THEN p0
                     ELSE Join([root |-> 1, parts |-> <<>>], p0)
         IN  expand_object_reference(Str(<<MARKER, "+">> \o PathStr(path)),
                                     NOTHING, loc, f, fuel)

expand_relative(value, key, loc, f, fuel) ==
    IF key # NOTHING THEN Raise("AssertionError", f)
    ELSE LET p0 == Path(Drop(value.s, 2))
             root == [root |-> 1, parts |-> <<>>]
         IN  IF is_absolute(p0) /\ ~IsUnder(p0, root) THEN Raise("ValueError", f)
             ELSE expand_object_reference(
                      Str(<<MARKER, "+">>
                          \o PathStr(IF is_absolute(p0) THEN relative_to(p0, root)
                                     ELSE p0)),
                      NOTHING, loc, f, fuel)

csm(seq, value, key, loc, f, fuel) ==
    CASE seq = <<MARKER, MARKER>> -> expand_escaped(value, key, f)
      [] seq = <<MARKER, "#">> -> expand_comment(value, key, f)
      [] seq = <<MARKER, "t">> -> expand_custom_type(value, key, f)
      [] seq = <<MARKER, "+">> -> expand_object_reference(value, key, loc, f, fuel)
      [] seq = <<MARKER, ".">> -> expand_relative(value, key, loc, f, fuel)
      [] seq = <<MARKER, "/">> -> expand_absolute(value, key, loc, f, fuel)

expand_value(kr, loc, fuel) ==
    IF kr.v.val.k = "str"
    THEN IF Take2(kr.v.val.s) \in CSM
         THEN Bind(csm(Take2(kr.v.val.s), kr.v.val, NOTHING, loc, kr.fs, fuel),
                   LAMBDA vr : Ok(Pair(kr.v.key, vr.v), vr.fs))
         ELSE kr
    ELSE IF kr.v.val.k = "dict"
    THEN Bind(object_hook(kr.v.val, loc, kr.fs, fuel),
              LAMBDA hr : Ok(Pair(kr.v.key, hr.v), hr.fs))
    ELSE kr

expand(pair, loc, f, fuel) ==
    Bind(IF Take2(pair.key.s) \in CSM
         THEN csm(Take2(pair.key.s), pair.val, pair.key, loc, f, fuel)
         ELSE Ok(pair, f),
         LAMBDA kr : expand_value(kr, loc, fuel))

expand_all(pairs, i, acc, loc, f, fuel) ==
    IF i > Len(pairs) THEN Ok(acc, f)
    ELSE Bind(expand(pairs[i], loc, f, fuel),
              LAMBDA r : expand_all(pairs, i + 1,
                                    IF r.v.val = IGNORE THEN acc
                                    ELSE DictSet(acc, r.v.key, r.v.val),
                                    loc, r.fs, fuel))

object_hook(obj, loc, f, fuel) ==
    Bind(expand_all(obj.pairs, 1, <<>>, loc, f, fuel),
         LAMBDA r : IF HasKey(r.v, CUSTOM_TYPE)
                    THEN from_object(Lookup(r.v, CUSTOM_TYPE),
                                     DictPop(r.v, CUSTOM_TYPE), r.fs)
                    ELSE Ok(Dict(r.v), r.fs))

decode_items(items, i, acc, loc, f, fuel) ==
    IF i > Len(items) THEN Ok(acc, f)
    ELSE Bind(decode_value(items[i], loc, f, fuel),
              LAMBDA r : decode_items(items, i + 1, Append(acc, r.v), loc, r.fs, fuel))

decode_pairs(pairs, i, acc, loc, f, fuel) ==
    IF i > Len(pairs) THEN Ok(acc, f)
    ELSE Bind(decode_value(pairs[i].val, loc, f, fuel),
              LAMBDA r : decode_pairs(pairs, i + 1,
                                      Append(acc, Pair(pairs[i].key, r.v)),
                                      loc, r.fs, fuel))

decode_value(raw, loc, f, fuel) ==
    IF raw.k = "dict"
    THEN Bind(decode_pairs(raw.pairs, 1, <<>>, loc, f, fuel),
              LAMBDA r : object_hook(Dict(r.v), loc, r.fs, fuel))
    ELSE IF raw.k = "list"
    THEN Bind(decode_items(raw.items, 1, <<>>, loc, f, fuel),
              LAMBDA r : Ok(List(r.v), r.fs))
    ELSE Ok(raw, f)

loads(s, loc, f) == decode_value(s, loc, f, MaxRefDepth)

(***************************************************************************)
(* to_object of the registered types (custom.py and the override package). *)
(***************************************************************************)
TypeTag == Str(<<MARKER, "t">>)

RECURSIVE to_object(_)
RECURSIVE to_object_all(_, _, _)

to_object_all(items, i, acc) ==
    IF i > Len(items) THEN Ok(acc, <<>>)
    ELSE IF items[i].k # "custom" THEN Raise("AttributeError", <<>>)
    ELSE Bind(to_object(items[i]),
              LAMBDA r : to_object_all(items, i + 1, Append(acc, r.v)))

to_object(o) ==
    LET base == <<Pair(TypeTag, W(o.type))>>
        wrap(pairs) == IF o.target # NOTHING THEN Remote(o.target, pairs)
                       ELSE Dict(pairs)
        field(name) == Lookup(o.fields, W(name))
    IN  IF o.type \in {"override-sequence", "override-module"}
        THEN IF field("overrides").k # "list" THEN Raise("AttributeError", <<>>)
             ELSE Bind(to_object_all(field("overrides").items, 1, <<>>),
                       LAMBDA r :
                           Ok(wrap(base \o <<Pair(W("overrides"), List(r.v))>>
                                   \o (IF o.type = "override-module"
                                       THEN <<Pair(W("info"), field("info"))>>
                                       ELSE <<>>)), <<>>))
        ELSE IF o.type = "override-reference"
        THEN IF field("override").k # "custom" THEN Raise("AttributeError", <<>>)
             ELSE Bind(to_object(field("override")),
                       LAMBDA r : Ok(wrap(base \o <<Pair(W("override"), r.v)>>), <<>>))
        ELSE IF o.type = "template"
        THEN Ok(wrap(base \o <<Pair(W("src"), field("src")),
                               Pair(W("dest"), field("dest"))>>), <<>>)
        ELSE Ok(wrap(base \o <<Pair(W("overrides"), field("overrides")),
                               Pair(W("target"), field("target"))>>), <<>>)

(***************************************************************************)
(* RemoteReferenceMixin.reference_str and write, VJSONEncoder              *)
(***************************************************************************)
target_relative(target, to) ==
    <<MARKER, ".", "/">>
    \o PathStr(IF to # NOTHING THEN relative_to(target, to) ELSE target)

target_absolute(target) == <<MARKER, "/">> \o PathStr(target)

reference_str(o, make_relative_to, safe, f) ==
    IF o.target.k # "path" THEN Raise("AttributeError", f)
    ELSE LET target == o.target.p
         IN  IF is_absolute(target)
             THEN IF make_relative_to # NOTHING
                  THEN IF IsUnder(target, make_relative_to)
                       THEN Ok(Str(target_relative(target, make_relative_to)), f)
                       ELSE IF safe THEN Ok(Str(target_absolute(target)), f)
                       ELSE Raise("ValueError", f)
                  ELSE Ok(Str(target_absolute(target)), f)
             ELSE Ok(Str(target_relative(target, NOTHING)), f)

Encoder(loc, write_remote_mappings, expand_remote_mappings) ==
    [location |-> loc, write_remote_mappings |-> write_remote_mappings,
     expand_remote_mappings |-> expand_remote_mappings,
     prefer_relative_references |-> TRUE]

RECURSIVE encode(_, _, _)
RECURSIVE encode_items(_, _, _, _, _)
RECURSIVE encode_pairs(_, _, _, _, _)
RECURSIVE write(_, _, _)
RECURSIVE default(_, _, _)

written(r, target) ==
    IF r.err # "none" THEN Raise(r.err, WriteFile(r.fs, target, PartialFile))
    ELSE Ok(NOTHING, WriteFile(r.fs, target, JsonFile(r.v)))

write_to(o, loc, f, target) ==
    IF UnderAFile(f, target) \/ IsDir(f, target) THEN Raise("OSError", f)
    ELSE written(encode(Dict(o.pairs), Encoder(loc, FALSE, FALSE),
                        WriteFile(f, target, EmptyFile)), target)

write(o, loc, f) ==
    IF o.target.k # "path" THEN Raise("AttributeError", f)
    ELSE IF ~is_absolute(o.target.p) /\ loc = NOTHING THEN Raise("AssertionError", f)
    ELSE write_to(o, loc, f, IF is_absolute(o.target.p) THEN o.target.p
                             ELSE Join(loc, o.target.p))

default(o, enc, f) ==
    IF o.k = "remote"
    THEN Bind(IF enc.write_remote_mappings THEN write(o, enc.location, f)
              ELSE Ok(NOTHING, f),
              LAMBDA w :
                  IF enc.expand_remote_mappings THEN Ok(Dict(o.pairs), w.fs)
                  ELSE IF enc.location # NOTHING /\ enc.prefer_relative_references
                  THEN reference_str(o, enc.location, FALSE, w.fs)
                  ELSE reference_str(o, NOTHING, FALSE, w.fs))
    ELSE IF o.k = "custom"
    THEN Bind([to_object(o) EXCEPT !.fs = f], LAMBDA r : Ok(r.v, f))
    ELSE Raise("TypeError", f)

encode_items(items, i, acc, enc, f) ==
    IF i > Len(items) THEN Ok(acc, f)
    ELSE Bind(encode(items[i], enc, f),
              LAMBDA r : encode_items(items, i + 1, Append(acc, r.v), enc, r.fs))

encode_pairs(pairs, i, acc, enc, f) ==
    IF i > Len(pairs) THEN Ok(acc, f)
    ELSE IF pairs[i].key.k # "str" THEN Raise("TypeError", f)
    ELSE Bind(encode(pairs[i].val, enc, f),
              LAMBDA r : encode_pairs(pairs, i + 1,
                                      Append(acc, Pair(pairs[i].key, r.v)), enc, r.fs))

encode(o, enc, f) ==
    IF o.k \in {"str", "num"} THEN Ok(o, f)
    ELSE IF o.k = "list"
    THEN Bind(encode_items(o.items, 1, <<>>, enc, f), LAMBDA r : Ok(List(r.v), r.fs))
    ELSE IF o.k = "dict"
    THEN Bind(encode_pairs(o.pairs, 1, <<>>, enc, f), LAMBDA r : Ok(Dict(r.v), r.fs))
    ELSE Bind(default(o, enc, f), LAMBDA d : encode(d.v, enc, d.fs))

\* json.dump writes the chunks of the encoding as they are produced: an
\* object that is a dict or a list has produced its opening bracket before
\* any of its items is encoded, an object handed to default() nothing yet.
RECURSIVE emits_output(_, _, _)
emits_after(d, enc) == d.err = "none" /\ emits_output(d.v, enc, d.fs)
emits_output(o, enc, f) ==
    IF o.k \in {"str", "num", "list", "dict"} THEN TRUE
    ELSE emits_after(default(o, enc, f), enc)

(***************************************************************************)
(* functions.dumps and functions.dump                                      *)
(***************************************************************************)
dumps(obj, loc, write_remote_mappings, expand_remote_mappings, f) ==
    encode(obj, Encoder(loc, write_remote_mappings, expand_remote_mappings), f)

BackupPath(dest, backup) ==
    [root |-> dest.root,
     parts |-> SubSeq(dest.parts, 1, Len(dest.parts) - 1)
               \o <<dest.parts[Len(dest.parts)] \o <<backup>> >>]

copy(f, src, dst) == WriteFile(f, dst, f[Resolve(src)])

restore(r, dest, backup_path, emitted) ==
    IF backup_path # NOTHING
    THEN RemoveFile(WriteFile(r.fs, dest, r.fs[Resolve(backup_path)]), backup_path)
    ELSE WriteFile(r.fs, dest, IF emitted THEN PartialFile ELSE EmptyFile)

close_keep(r, dest, backup_path, emitted) ==
    IF r.err # "none" THEN Raise("IOError", restore(r, dest, backup_path, emitted))
    ELSE Ok(NOTHING, WriteFile(r.fs, dest, JsonFile(r.v)))

close(r, dest, backup_path, emitted) ==
    IF r.err # "none" THEN Raise("IOError", restore(r, dest, backup_path, emitted))
    ELSE Ok(NOTHING, IF backup_path # NOTHING
                     THEN RemoveFile(WriteFile(r.fs, dest, JsonFile(r.v)), backup_path)
                     ELSE WriteFile(r.fs, dest, JsonFile(r.v)))

dump_opened(obj, dest, enc, backup_path, opened) ==
    close(encode(obj, enc, opened), dest, backup_path, emits_output(obj, enc, opened))

dump(obj, dest, loc, write_remote_mappings, expand_remote_mappings, backup, f) ==
    IF UnderAFile(f, dest) \/ IsDir(f, dest) \/ dest.parts = <<>>
    THEN Raise("OSError", f)
    ELSE dump_opened(obj, dest,
                     Encoder(IF loc = NOTHING THEN parent(dest) ELSE loc,
                             write_remote_mappings, expand_remote_mappings),
                     IF backup # "" THEN BackupPath(dest, backup) ELSE NOTHING,
                     IF backup # ""
                     THEN copy(WriteFile(f, dest, EmptyFile), dest,
                               BackupPath(dest, backup))
                     ELSE WriteFile(f, dest, EmptyFile))

(***************************************************************************)
(* functions.load and the save and load of a custom-typed object           *)
(***************************************************************************)
load(source, loc, f) ==
    IF ~IsFile(f, source) THEN Raise("OSError", f)
    ELSE IF f[Resolve(source)].k # "json" THEN Raise("ValueError", f)
    ELSE loads(f[Resolve(source)].v, IF loc = NOTHING THEN parent(source) ELSE loc, f)

save(o, to, f) ==
    Bind([to_object(o) EXCEPT !.fs = f],
         LAMBDA obj : dump(obj.v, Resolve(to), parent(to), TRUE, FALSE, ".bak", f))

custom_load(from_, f) == load(from_, parent(from_), f)

(***************************************************************************)
(* util.misc: walk_dict, set_nested, recursive_update, flatten_dict        *)
(***************************************************************************)
IsMapping(v) == v.k \in {"dict", "remote"}

RECURSIVE walk_dict(_, _)
RECURSIVE walk_pairs(_, _, _)
walk_pairs(pairs, i, key_prefix) ==
    IF i > Len(pairs) THEN <<>>
    ELSE LET key_seq == Append(key_prefix, pairs[i].key)
             v == pairs[i].val
         IN  (IF IsMapping(v) THEN walk_dict(v, key_seq)
              ELSE <<[keys |-> key_seq, val |-> v]>>)
             \o walk_pairs(pairs, i + 1, key_prefix)
walk_dict(mapping, key_prefix) == walk_pairs(mapping.pairs, 1, key_prefix)

RECURSIVE set_nested(_, _, _)
set_nested(mapping, key_sequence, value) ==
    IF ~IsMapping(mapping) THEN Raise("TypeError", <<>>)
    ELSE IF Len(key_sequence) = 1
    THEN Ok([mapping EXCEPT !.pairs = DictSet(@, key_sequence[1], value)], <<>>)
    ELSE LET first == key_sequence[1]
             m1 == IF ~HasKey(mapping.pairs, first)
                   THEN [mapping EXCEPT !.pairs = DictSet(@, first, Dict(<<>>))]
                   ELSE mapping
             r == set_nested(Lookup(m1.pairs, first), Tail(key_sequence), value)
         IN  IF r.err # "none" THEN r
             ELSE Ok([m1 EXCEPT !.pairs = DictSet(@, first, r.v)], <<>>)

RECURSIVE update_each(_, _, _)
update_each(mapping, entries, i) ==
    IF i > Len(entries) THEN Ok(mapping, <<>>)
    ELSE LET r == set_nested(mapping, entries[i].keys, entries[i].val)
         IN  IF r.err # "none" THEN r ELSE update_each(r.v, entries, i + 1)

recursive_update(mapping, other) ==
    IF ~IsMapping(other) THEN Raise("AttributeError", <<>>)
    ELSE update_each(mapping, walk_dict(other, <<>>), 1)

RECURSIVE flatten_each(_, _, _, _)
flatten_each(entries, i, acc, replacement_value) ==
    IF i > Len(entries) THEN acc
    ELSE flatten_each(entries, i + 1,
                      DictSet(acc, entries[i].keys, replacement_value),
                      replacement_value)
flatten_dict(mapping, prefix, replacement_value) ==
    flatten_each(walk_dict(mapping, prefix), 1, <<>>, replacement_value)

(***************************************************************************)
(* The override tree.  An instance is named by its position in the tree.   *)
(***************************************************************************)
TutorRoot == [root |-> 1, parts |-> << <<"t">> >>]
ReconRoot == [root |-> 1, parts |-> << <<"r">> >>]

Field(o, name) == Lookup(o.fields, W(name))
IsSequence(o) == o.type \in {"override-sequence", "override-module"}

dict_update_setdefault(claim_map, other) ==
    claim_map \o SelectSeq(other, LAMBDA p : ~HasKey(claim_map, p.key))

dict_update(claim_map, other) ==
    [i \in 1..Len(claim_map) |->
        IF HasKey(other, claim_map[i].key)
        THEN Pair(claim_map[i].key, Lookup(other, claim_map[i].key))
        ELSE claim_map[i]]
    \o SelectSeq(other, LAMBDA p : ~HasKey(claim_map, p.key))

RECURSIVE claims(_, _)
RECURSIVE claims_each(_, _, _, _)
claims_each(overrides, i, pos, claim_map) ==
    IF i > Len(overrides) THEN claim_map
    ELSE claims_each(overrides, i + 1, pos,
                     dict_update(claim_map, claims(overrides[i], Append(pos, i))))
claims(o, pos) ==
    IF IsSequence(o) THEN claims_each(Field(o, "overrides").items, 1, pos, <<>>)
    ELSE IF o.type = "override-reference"
    THEN claims(Field(o, "override"), Append(pos, 1))
    ELSE IF o.type = "template" THEN <<Pair(<<Field(o, "dest")>>, pos)>>
    ELSE flatten_dict(Field(o, "overrides"), <<Field(o, "target")>>, pos)

(***************************************************************************)
(* match and remove_where.  The loop of remove_where runs over the list it *)
(* deletes from: after a deletion at index the iterator goes on at         *)
(* index + 1 of the shortened list.                                        *)
(***************************************************************************)
matches(obj, pairs) ==
    \A i \in 1..Len(pairs) :
        HasKey(obj.pairs, pairs[i].key) /\ Lookup(obj.pairs, pairs[i].key) = pairs[i].val

RECURSIVE match(_, _)
match(o, pairs) ==
    IF o.type = "override-reference" THEN match(Field(o, "override"), pairs)
    ELSE Bind(to_object(o), LAMBDA r : Ok(matches(r.v, pairs), <<>>))

Removal(overrides, removed) == [overrides |-> overrides, removed |-> removed]
DeleteAt(items, index) == SubSeq(items, 1, index - 1) \o SubSeq(items, index + 1, Len(items))
SetOverrides(o, items) ==
    [o EXCEPT !.fields = DictSet(@, W("overrides"), List(items))]

RECURSIVE remove_where(_, _)
RECURSIVE remove_loop(_, _, _, _)
remove_child(items, index, removed, pairs, matched) ==
    IF matched.v
    THEN remove_loop(DeleteAt(items, index), index + 1,
                     Append(removed, items[index]), pairs)
    ELSE IF IsSequence(items[index])
    THEN Bind(remove_where(items[index], pairs),
              LAMBDA r : remove_loop(
                  [items EXCEPT ![index] = SetOverrides(@, r.v.overrides)],
                  index + 1, removed \o r.v.removed, pairs))
    ELSE remove_loop(items, index + 1, removed, pairs)

remove_loop(items, index, removed, pairs) ==
    IF index > Len(items) THEN Ok(Removal(items, removed), <<>>)
    ELSE Bind(match(items[index], pairs),
              LAMBDA matched : remove_child(items, index, removed, pairs, matched))

remove_where(o, pairs) == remove_loop(Field(o, "overrides").items, 1, <<>>, pairs)

(***************************************************************************)
(* override(): the leaves                                                  *)
(***************************************************************************)
HostPath(root, name) == Join(root, Path(name.s))
RenderedFile(source) == [k |-> "rendered", from |-> source]

RECURSIVE PlainJson(_)
PlainJson(v) ==
    \/ v.k \in {"str", "num"}
    \/ v.k = "list" /\ \A i \in 1..Len(v.items) : PlainJson(v.items[i])
    \/ v.k = "dict" /\ \A i \in 1..Len(v.pairs) :
           v.pairs[i].key.k = "str" /\ PlainJson(v.pairs[i].val)

load_from_env_default(o, tutor_root, f) ==
    LET path == HostPath(tutor_root, Field(o, "target"))
    IN  IF ~IsFile(f, path) THEN Ok(Dict(<<>>), f)
        ELSE IF f[Resolve(path)].k # "json" THEN Raise("ValueError", f)
        ELSE Ok(f[Resolve(path)].v, f)

load_from_env(o, tutor_root, f) ==
    LET path == HostPath(tutor_root, Field(o, "target"))
    IN  IF ~IsFile(f, path) THEN Raise("OSError", f)
        ELSE IF f[Resolve(path)].k # "json" THEN Raise("ValueError", f)
        ELSE Ok(f[Resolve(path)].v, f)

update_env_replace(o, tutor_root, override_settings, f) ==
    LET env == load_from_env(o, tutor_root, f)
        path == HostPath(tutor_root, Field(o, "target"))
    IN  IF env.err # "none" THEN env
        ELSE Ok(NOTHING, WriteFile(f, path, JsonFile(override_settings)))

update_env(o, tutor_root, override_settings, f) ==
    LET env == load_from_env(o, tutor_root, f)
        path == HostPath(tutor_root, Field(o, "target"))
    IN  IF env.err # "none" THEN env
        ELSE LET r == recursive_update(env.v, override_settings)
             IN  IF r.err # "none" THEN Raise(r.err, f)
                 ELSE IF ~PlainJson(r.v)
                 THEN Raise("TypeError", WriteFile(f, path, PartialFile))
                 ELSE Ok(NOTHING, WriteFile(f, path, JsonFile(r.v)))

render_template(source, dest, f) ==
    IF ~IsFile(f, source) THEN Raise("OSError", f)
    ELSE IF UnderAFile(f, dest) \/ IsDir(f, dest) THEN Raise("OSError", f)
    ELSE Ok(NOTHING, WriteFile(f, dest, RenderedFile(f[Resolve(source)])))

override_leaf_cached(o, tutor_root, recon_root, f) ==
    CASE o.type = "json" ->
            IF Field(o, "target").k # "str" THEN Raise("TypeError", f)
            ELSE update_env(o, tutor_root, Field(o, "overrides"), fs0)
      [] o.type = "template" ->
            IF Field(o, "src").k # "str" \/ Field(o, "dest").k # "str"
            THEN Raise("TypeError", f)
            ELSE render_template(HostPath(recon_root, Field(o, "src")),
                                 HostPath(tutor_root, Field(o, "dest")), f)

override_leaf(o, tutor_root, recon_root, f) ==
    CASE o.type = "json" ->
            IF Field(o, "target").k # "str" THEN Raise("TypeError", f)
            ELSE update_env(o, tutor_root, Field(o, "overrides"), f)
      [] o.type = "template" ->
            IF Field(o, "src").k # "str" \/ Field(o, "dest").k # "str"
            THEN Raise("TypeError", f)
            ELSE render_template(HostPath(recon_root, Field(o, "src")),
                                 HostPath(tutor_root, Field(o, "dest")), f)

(***************************************************************************)
(* override(): the sweep over the tree.  A frame is a pending call of      *)
(* override() on the instance at a position of the tree; the calls of a    *)
(* sequence on its children are pending in list order.                     *)
(***************************************************************************)
Frame(node, pos) == [node |-> node, pos |-> pos]
ChildFrames_reversed(items, pos) ==
    [i \in 1..Len(items) |->
        Frame(items[Len(items) + 1 - i], Append(pos, Len(items) + 1 - i))]

ChildFrames(items, pos) == [i \in 1..Len(items) |-> Frame(items[i], Append(pos, i))]

Sweep(t, a, f, status, e) ==
    [todo |-> t, applied |-> a, fs |-> f, sweep |-> status, err |-> e]
Raised(a, f, e) == Sweep(<<>>, a, f, "raised", e)
Continue(t, a, f) == Sweep(t, a, f, IF t = <<>> THEN "done" ELSE "running", "none")

sequence_override(o, pos, rest, a, f) ==
    LET overrides == Field(o, "overrides")
    IN  IF overrides.k = "list"
        THEN Continue(ChildFrames(overrides.items, pos) \o rest, a, f)
        ELSE Raised(a, f, IF overrides.k = "num" THEN "TypeError" ELSE "AttributeError")

module_override(o, pos, rest, a, f) ==
    LET info == Field(o, "info")
        overrides == Field(o, "overrides")
    IN  IF ~IsMapping(info) THEN Raised(a, f, "TypeError")
        ELSE IF ~HasKey(info.pairs, W("name")) THEN Raised(a, f, "KeyError")
        ELSE IF overrides.k # "list" THEN sequence_override(o, pos, rest, a, f)
        ELSE IF overrides.items = <<>> THEN Continue(rest, a, f)
        ELSE IF overrides.items[1].k # "custom" THEN Raised(a, f, "AttributeError")
        ELSE IF Lookup(info.pairs, W("name")).k # "str" THEN Raised(a, f, "TypeError")
        ELSE IF \E i \in 1..Len(overrides.items) : overrides.items[i].k # "custom"
        THEN Raised(a, f, "AttributeError")
        ELSE sequence_override(o, pos, rest, a, f)

override_step_swallow(t, a, f, tutor_root, recon_root) ==
    LET o == t[1].node
        pos == t[1].pos
        rest == Tail(t)
    IN  IF o.k # "custom" THEN Raised(a, f, "AttributeError")
        ELSE IF o.type = "override-module" THEN module_override(o, pos, rest, a, f)
        ELSE IF o.type = "override-sequence" THEN sequence_override(o, pos, rest, a, f)
        ELSE IF o.type = "override-reference"
        THEN Continue(<<Frame(Field(o, "override"), Append(pos, 1))>> \o rest, a, f)
        ELSE LET r == override_leaf(o, tutor_root, recon_root, f)
             IN  IF r.err # "none" THEN Continue(rest, a, r.fs)
                 ELSE Continue(rest, Append(a, pos), r.fs)

override_step(t, a, f, tutor_root, recon_root) ==
    LET o == t[1].node
        pos == t[1].pos
        rest == Tail(t)
    IN  IF o.k # "custom" THEN Raised(a, f, "AttributeError")
        ELSE IF o.type = "override-module" THEN module_override(o, pos, rest, a, f)
        ELSE IF o.type = "override-sequence" THEN sequence_override(o, pos, rest, a, f)
        ELSE IF o.type = "override-reference"
        THEN Continue(<<Frame(Field(o, "override"), Append(pos, 1))>> \o rest, a, f)
        ELSE LET r == override_leaf(o, tutor_root, recon_root, f)
             IN  IF r.err # "none" THEN Raised(a, r.fs, r.err)
                 ELSE Continue(rest, Append(a, pos), r.fs)

\* override() as one call: the sweep run until it is done or has raised.
RECURSIVE sweep_all(_, _, _)
sweep_all(st, tutor_root, recon_root) ==
    IF st.sweep # "running" THEN st
    ELSE sweep_all(override_step(st.todo, st.applied, st.fs, tutor_root, recon_root),
                   tutor_root, recon_root)

override(o, tutor_root, recon_root, f) ==
    sweep_all(Continue(<<Frame(o, <<>>)>>, <<>>, f), tutor_root, recon_root)

(***************************************************************************)
(* scaffold(): placeholders for the keys of the host, under the overrides. *)
(***************************************************************************)
brief(string, max_len) ==
    IF Len(string) > max_len
    THEN SubSeq(string, 1, max_len - 3) \o <<".", ".", ".">>
    ELSE string

RECURSIVE repr(_)
RECURSIVE repr_items(_, _)
RECURSIVE repr_pairs(_, _)
repr_items(items, i) ==
    IF i > Len(items) THEN <<>>
    ELSE repr(items[i]) \o (IF i < Len(items) THEN <<",", " ">> ELSE <<>>)
         \o repr_items(items, i + 1)
repr_pairs(pairs, i) ==
    IF i > Len(pairs) THEN <<>>
    ELSE repr(pairs[i].key) \o <<":", " ">> \o repr(pairs[i].val)
         \o (IF i < Len(pairs) THEN <<",", " ">> ELSE <<>>)
         \o repr_pairs(pairs, i + 1)
repr(v) ==
    CASE v.k = "num" -> <<ToString(v.n)>>
      [] v.k = "str" -> <<"'">> \o v.s \o <<"'">>
      [] v.k = "list" -> <<"[">> \o repr_items(v.items, 1) \o <<"]">>
      [] v.k = "dict" -> <<"{">> \o repr_pairs(v.pairs, 1) \o <<"}">>

format_unset(value) ==
    Str(<<MARKER, "#", " ", "(">> \o brief(repr(value), 35) \o <<")">>)

Placeholders(entries) ==
    [i \in 1..Len(entries) |->
        [keys |-> entries[i].keys, val |-> format_unset(entries[i].val)]]

get_scaffold(o, tutor_root, f) ==
    Bind(load_from_env(o, tutor_root, f),
         LAMBDA env :
             IF ~IsMapping(env.v) THEN Raise("AttributeError", f)
             ELSE update_each(Dict(<<>>), Placeholders(walk_dict(env.v, <<>>)), 1))

get_complete_unset(o, tutor_root, f) == get_scaffold(o, tutor_root, f)

get_complete(o, tutor_root, f) ==
    Bind(get_scaffold(o, tutor_root, f),
         LAMBDA scaffold_ : recursive_update(scaffold_.v, Field(o, "overrides")))

\* recursive_update() works in place: what it has set before it raises stays.
RECURSIVE updated_in_place(_, _, _)
updated_in_place(mapping, entries, i) ==
    IF i > Len(entries) \/ set_nested(mapping, entries[i].keys, entries[i].val).err # "none"
    THEN mapping
    ELSE updated_in_place(set_nested(mapping, entries[i].keys, entries[i].val).v,
                          entries, i + 1)

Scaffolded(node, f, e) == [node |-> node, fs |-> f, err |-> e]
WithOverrides(o, overrides) ==
    [o EXCEPT !.fields = DictSet(@, W("overrides"), overrides)]

config_scaffold(o, tutor_root, f) ==
    IF Field(o, "target").k # "str" THEN Scaffolded(o, f, "TypeError")
    ELSE LET complete == get_complete(o, tutor_root, f)
         IN  IF complete.err # "none" THEN Scaffolded(o, f, complete.err)
             ELSE Scaffolded(
                      WithOverrides(o, updated_in_place(Field(o, "overrides"),
                                                        walk_dict(complete.v, <<>>), 1)),
                      f,
                      recursive_update(Field(o, "overrides"), complete.v).err)

PackageTemplates == [root |-> 1, parts |-> << <<"p">> >>]
template_source(template_relpath) == Join(PackageTemplates, template_relpath)

template_scaffold(o, tutor_root, recon_root, f) ==
    IF Field(o, "src").k # "str" THEN Scaffolded(o, f, "TypeError")
    ELSE LET recon_template_path == HostPath(recon_root, Field(o, "src"))
             src == Path(Field(o, "src").s)
             templates == Path(<<"templates">>)
             tutor_template_path == template_source(relative_to(src, templates))
         IN  IF exists(f, recon_template_path) THEN Scaffolded(o, f, "none")
             ELSE IF ~IsUnder(src, templates) THEN Scaffolded(o, f, "ValueError")
             ELSE IF ~IsFile(f, tutor_template_path) THEN Scaffolded(o, f, "OSError")
             ELSE IF UnderAFile(f, recon_template_path) THEN Scaffolded(o, f, "OSError")
             ELSE Scaffolded(o, WriteFile(f, recon_template_path,
                                          f[Resolve(tutor_template_path)]), "none")

RECURSIVE scaffold(_, _, _, _)
RECURSIVE scaffold_each(_, _, _, _, _)
scaffold_next(items, i, tutor_root, recon_root, r) ==
    IF r.err # "none" THEN Scaffolded([items EXCEPT ![i] = r.node], r.fs, r.err)
    ELSE scaffold_each([items EXCEPT ![i] = r.node], i + 1, tutor_root, recon_root, r.fs)
scaffold_each(items, i, tutor_root, recon_root, f) ==
    IF i > Len(items) THEN Scaffolded(items, f, "none")
    ELSE scaffold_next(items, i, tutor_root, recon_root,
                       scaffold(items[i], tutor_root, recon_root, f))
scaffold_into(o, name, r) ==
    Scaffolded([o EXCEPT !.fields = DictSet(@, W(name), r.node)], r.fs, r.err)
scaffold_list(r) == Scaffolded(List(r.node), r.fs, r.err)
scaffold(o, tutor_root, recon_root, f) ==
    IF IsSequence(o)
    THEN scaffold_into(o, "overrides",
             scaffold_list(scaffold_each(Field(o, "overrides").items, 1,
                                         tutor_root, recon_root, f)))
    ELSE IF o.type = "override-reference"
    THEN scaffold_into(o, "override",
                       scaffold(Field(o, "override"), tutor_root, recon_root, f))
    ELSE IF o.type = "template" THEN template_scaffold(o, tutor_root, recon_root, f)
    ELSE config_scaffold(o, tutor_root, f)

(***************************************************************************)
(* Equality of value trees: dicts are equal whatever the order of keys.    *)
(***************************************************************************)
RECURSIVE ValEq(_, _)
PairsEq(p, q) ==
    /\ Keys(p) = Keys(q)
    /\ \A key \in Keys(p) : ValEq(Lookup(p, key), Lookup(q, key))
ValEq(a, b) ==
    IF a.k # b.k THEN FALSE
    ELSE IF a.k = "dict" THEN PairsEq(a.pairs, b.pairs)
    ELSE IF a.k = "list"
    THEN Len(a.items) = Len(b.items)
         /\ \A i \in 1..Len(a.items) : ValEq(a.items[i], b.items[i])
    ELSE IF a.k = "remote" THEN a.target = b.target /\ PairsEq(a.pairs, b.pairs)
    ELSE IF a.k = "custom"
    THEN a.type = b.type /\ a.target = b.target /\ PairsEq(a.fields, b.fields)
    ELSE a = b

(***************************************************************************)
(* The inputs: strings, documents, in-memory trees, files.                 *)
(***************************************************************************)
Alphabet == {MARKER, "#", "a"}
ExtraStrings ==
    {<<MARKER, "t">>, <<MARKER, MARKER, "t">>, <<MARKER, "+", "p">>,
     <<MARKER, MARKER, "+", "p">>, <<MARKER, MARKER, "#", "a">>,
     <<MARKER, MARKER, MARKER, "#", "a">>}
Strings == UNION {[1..n -> Alphabet] : n \in 0..MaxStrLen} \cup ExtraStrings

RECURSIVE Nest(_, _)
Nest(v, d) == IF d = 0 THEN v ELSE Dict(<<Pair(W("n"), Nest(v, d - 1))>>)

StringDocs ==
    {Dict(<<Pair(W("k"), Nest(Str(s), d)), Pair(W("x"), W("v"))>>) :
        s \in Strings, d \in 0..MaxNest}
    \cup {Dict(<<Pair(Str(s), W("v"))>>) : s \in Strings}
    \cup {Dict(<<Pair(Str(s), Str(s))>>) : s \in Strings}
    \cup {Dict(<<Pair(W("k"), Dict(<<Pair(Str(s), W("v"))>>))>>) : s \in Strings}
    \cup {Dict(<<Pair(W("k"), List(<<Str(s)>>))>>) : s \in Strings}
    \cup {Dict(<<Pair(W("k"), List(<<Dict(<<Pair(W("n"), Str(s))>>)>>))>>) :
            s \in Strings}

AbsPath(parts) == [root |-> 1, parts |-> parts]
RelPath(parts) == [root |-> 0, parts |-> parts]
MainDoc == AbsPath(<< <<"r">>, <<"main">> >>)
PlainDoc == AbsPath(<< <<"r">>, <<"p">> >>)
ModuleDoc == AbsPath(<< <<"r">>, <<"m">> >>)
HostDoc == AbsPath(<< <<"t">>, <<"h">> >>)

TemplateObject(src, dest) ==
    Dict(<<Pair(TypeTag, W("template")), Pair(W("src"), src), Pair(W("dest"), dest)>>)

ReservedKeyDoc == AbsPath(<< <<"r">>, <<"b">> >>)
UnknownTypeDoc == AbsPath(<< <<"r">>, <<"u">> >>)

SubDoc == AbsPath(<< <<"r">>, <<"sub">>, <<"d">> >>)
SubLeaf == AbsPath(<< <<"r">>, <<"sub">>, <<"g">> >>)
SubTarget == AbsPath(<< <<"r">>, <<"sub">>, <<"q">> >>)

InitFs ==
    [q \in {MainDoc, PlainDoc, ModuleDoc, HostDoc, ReservedKeyDoc, UnknownTypeDoc,
            SubDoc, SubLeaf} |->
        IF q = MainDoc THEN JsonFile(Dict(<<Pair(W("old"), W("v"))>>))
        ELSE IF q = SubDoc THEN JsonFile(Dict(<<Pair(W("n"), Str(<<MARKER, "+", "g">>))>>))
        ELSE IF q = SubLeaf THEN JsonFile(Dict(<<Pair(W("x"), W("e"))>>))
        ELSE IF q = ReservedKeyDoc
        THEN JsonFile(Dict(<<Pair(W("target"), W("v")),
                             Pair(Str(<<MARKER, "#", "a">>), W("v"))>>))
        ELSE IF q = UnknownTypeDoc
        THEN JsonFile(Dict(<<Pair(W("target"), W("v")), Pair(TypeTag, W("nope"))>>))
        ELSE IF q = PlainDoc THEN JsonFile(Dict(<<Pair(W("x"), W("v"))>>))
        ELSE IF q = ModuleDoc THEN JsonFile(TemplateObject(W("s"), W("d")))
        ELSE JsonFile(Dict(<<Pair(W("a"), Num(0)), Pair(W("b"), Num(0))>>))]

RefStrings ==
    {<<MARKER, "+", "p">>, <<MARKER, "+", "n">>, <<MARKER, "+", "m">>,
     <<MARKER, "+", "/", "r", "/", "p">>, <<MARKER, "+", "/", "r", "/", "n">>,
     <<MARKER, "+", "/", "r", "/", "m">>, <<MARKER, "+", "/", "o", "/", "n">>,
     <<MARKER, ".", "/", "p">>, <<MARKER, ".", "/", "n">>, <<MARKER, ".", "/", "m">>,
     <<MARKER, "/", "r", "/", "n">>, <<MARKER, "/", "/", "r", "/", "m">>,
     <<MARKER, "+">>}
RefDocs ==
    {Dict(<<Pair(W("k"), Str(r))>>) : r \in RefStrings}
    \cup {Dict(<<Pair(W("x"), W("v")), Pair(W("k"), Str(r))>>) : r \in RefStrings}

CustomDocs ==
    {Dict(<<Pair(TypeTag, W(t)), Pair(W("src"), W("s")), Pair(W("dest"), W("d")),
            Pair(W("x"), Str(c))>>) :
        t \in {"template", "nope"},
        c \in {<<MARKER, "#">>, <<MARKER, MARKER, "#">>, <<"v">>}}
    \cup {TemplateObject(W("s"), W("d")),
          Dict(<<Pair(W("k"), TemplateObject(Str(<<MARKER, "#", "a">>), W("d")))>>),
          Dict(<<Pair(W("k"), TemplateObject(W("s"), W("d")))>>),
          Dict(<<Pair(W("k"),
                      Dict(<<Pair(Str(<<MARKER, MARKER, "t">>), W("template")),
                             Pair(W("src"), W("s")), Pair(W("dest"), W("d"))>>))>>)}

BadRefDocs ==
    {Dict(<<Pair(W("x"), W("v")), Pair(W("k"), Str(r))>>) :
        r \in {<<MARKER, "+", "b">>, <<MARKER, "+", "u">>,
               <<MARKER, "+", "/", "r", "/", "b">>}}
    \cup {Dict(<<Pair(W("a"), List(<<Dict(<<Pair(Str(c \o <<"k">>), W("v"))>>)>>))>>) :
              c \in {<<MARKER, "+">>, <<MARKER, ".">>, <<MARKER, "/">>}}

SubDirDoc == Dict(<<Pair(W("k"), Str(<<MARKER, "+", "sub", "/", "d">>))>>)

InputDocs == StringDocs \cup RefDocs \cup CustomDocs \cup BadRefDocs \cup {SubDirDoc}

RemoteTargets ==
    {PathV(PlainDoc), PathV(AbsPath(<< <<"o">>, <<"g">> >>)),
     PathV(RelPath(<< <<"p">> >>)), PathV(AbsPath(<< <<"r">>, <<"n">> >>))}
RemoteTrees ==
    {Dict(<<Pair(W("x"), W("v")), Pair(W("k"), Remote(t, <<Pair(W("x"), W(c))>>))>>) :
        t \in RemoteTargets, c \in {"v", "e"}}
NestedRemoteTrees ==
    {Dict(<<Pair(W("x"), W("v")),
            Pair(W("k"), Remote(PathV(PlainDoc),
                                <<Pair(W("n"), Remote(t, <<Pair(W("x"), W("e"))>>))>>))>>) :
        t \in {PathV(AbsPath(<< <<"r">>, <<"n">> >>)), PathV(RelPath(<< <<"n">> >>))}}
SubDirTree ==
    Dict(<<Pair(W("x"), W("v")),
           Pair(W("k"), Remote(PathV(SubTarget),
                               <<Pair(W("n"), Remote(PathV(SubLeaf),
                                                     <<Pair(W("x"), W("e"))>>))>>))>>)
InputTrees == StringDocs \cup RemoteTrees \cup NestedRemoteTrees \cup {SubDirTree}

Locations == {NOTHING, ReconRoot, RelPath(<< <<"q">> >>)}
DestPaths == {MainDoc, AbsPath(<< <<"r">>, <<"new">> >>)}

(***************************************************************************)
(* The state machine of the codec: a caller builds or reads a document,    *)
(* and applies escape, loads, dumps and dump to what it has in hand.       *)
(***************************************************************************)
LastOp == IF hist = <<>> THEN "init" ELSE hist[Len(hist)]

SweepIdle == todo = <<>> /\ applied = <<>> /\ sweep = "idle"

Init ==
    /\ fs = InitFs
    /\ fs0 = InitFs
    /\ location \in Locations
    /\ \/ text \in InputDocs /\ val = NOTHING /\ given = text
       \/ val \in InputTrees /\ text = NOTHING /\ given = val
    /\ prev = NOTHING
    /\ hist = <<>>
    /\ op = [name |-> "init"]
    /\ err = "none"
    /\ SweepIdle

EscapeKeys(d) ==
    Dict([i \in 1..Len(d.pairs) |-> Pair(escape(d.pairs[i].key), d.pairs[i].val)])

Escape(keys) ==
    /\ hist = <<>>
    /\ val # NOTHING
    /\ text' = IF keys THEN EscapeKeys(escape(val)) ELSE escape(val)
    /\ prev' = val
    /\ hist' = <<IF keys THEN "escape_keys" ELSE "escape">>
    /\ op' = [name |-> "escape", keys |-> keys]
    /\ fs0' = fs
    /\ UNCHANGED <<fs, location, val, err, given, todo, applied, sweep>>

Loads ==
    /\ text # NOTHING
    /\ err = "none"
    /\ Len(hist) < MaxOps
    /\ LastOp \in {"init", "escape", "escape_keys", "dumps"}
    /\ LET r == loads(text, location, fs)
       IN  /\ val' = r.v
           /\ err' = r.err
           /\ fs' = r.fs
    /\ hist' = Append(hist, "loads")
    /\ op' = [name |-> "loads"]
    /\ fs0' = fs
    /\ UNCHANGED <<location, text, prev, given, todo, applied, sweep>>

Dumps(write_remote_mappings, expand_remote_mappings) ==
    /\ val # NOTHING
    /\ err = "none"
    /\ Len(hist) < MaxOps
    /\ LastOp \in {"init", "loads"}
    /\ LET r == dumps(val, location, write_remote_mappings,
                      expand_remote_mappings, fs)
       IN  /\ text' = r.v
           /\ err' = r.err
           /\ fs' = r.fs
    /\ prev' = val
    /\ hist' = Append(hist, "dumps")
    /\ op' = [name |-> "dumps", write_remote_mappings |-> write_remote_mappings,
              expand_remote_mappings |-> expand_remote_mappings]
    /\ fs0' = fs
    /\ UNCHANGED <<location, val, given, todo, applied, sweep>>

Dump(dest, backup) ==
    /\ val # NOTHING
    /\ err = "none"
    /\ Len(hist) < MaxOps
    /\ LastOp \in {"init", "loads"}
    /\ LET r == dump(val, dest, location, TRUE, FALSE, backup, fs)
       IN  /\ err' = r.err
           /\ fs' = r.fs
    /\ prev' = val
    /\ hist' = Append(hist, "dump")
    /\ op' = [name |-> "dump", dest |-> dest, backup |-> backup]
    /\ fs0' = fs
    /\ UNCHANGED <<location, text, val, given, todo, applied, sweep>>

Next ==
    \/ \E keys \in BOOLEAN : Escape(keys)
    \/ Loads
    \/ \E w \in BOOLEAN, e \in BOOLEAN : Dumps(w, e)
    \/ \E dest \in DestPaths, backup \in {".bak", ""} : Dump(dest, backup)

Spec == Init /\ [][Next]_vars

(***************************************************************************)
(* The state machine of the override sweep: a command holds an override    *)
(* tree and calls override() on it; each step is the next pending call.    *)
(***************************************************************************)
JsonLeaf(target, overrides) ==
    Custom("json", <<Pair(W("overrides"), overrides), Pair(W("target"), W(target))>>,
           NOTHING)
TemplateLeaf(src, dest) ==
    Custom("template", <<Pair(W("src"), W(src)), Pair(W("dest"), W(dest))>>, NOTHING)
SequenceNode(children) ==
    Custom("override-sequence", <<Pair(W("overrides"), List(children))>>, NOTHING)
ModuleNode(children) ==
    Custom("override-module",
           <<Pair(W("overrides"), List(children)),
             Pair(W("info"), Dict(<<Pair(W("name"), W("mod"))>>))>>, NOTHING)
ReferenceNode(child) ==
    Custom("override-reference", <<Pair(W("override"), child)>>, NOTHING)

LeafSet ==
    {JsonLeaf("h", Dict(<<Pair(W("a"), Num(v))>>)) : v \in 1..MaxVal}
    \cup {JsonLeaf("h", Dict(<<Pair(W("a"), Dict(<<Pair(W("c"), Num(1))>>))>>)),
          JsonLeaf("g", Dict(<<Pair(W("a"), Num(1))>>)),
          TemplateLeaf("s", "d")}

Grouped(kind, children) ==
    CASE kind = "seq" -> SequenceNode(children)
      [] kind = "module" -> ModuleNode(children)
      [] kind = "ref" -> ReferenceNode(SequenceNode(children))

OverrideTrees ==
    LET lists == UNION {[1..n -> LeafSet] : n \in 1..MaxLeaves}
    IN  {SequenceNode(ls) : ls \in lists}
        \cup {SequenceNode(SubSeq(ls, 1, i - 1)
                           \o <<Grouped(kind, SubSeq(ls, i, j))>>
                           \o SubSeq(ls, j + 1, Len(ls))) :
                <<ls, i, j, kind>> \in
                    {q \in lists \X (1..MaxLeaves) \X (1..MaxLeaves)
                           \X {"seq", "module", "ref"} :
                        q[2] <= q[3] /\ q[3] <= Len(q[1])}}

TemplateSource == AbsPath(<< <<"r">>, <<"s">> >>)
TextFile == [k |-> "text"]
EditedFile == [k |-> "text", edited |-> TRUE]
HostContents ==
    {Dict(<<Pair(W("a"), Num(0)), Pair(W("b"), Num(0))>>),
     Dict(<<Pair(W("a"), Dict(<<Pair(W("c"), Num(0))>>))>>)}
ModuleTemplateSource == AbsPath(<< <<"r">>, <<"modules">>, <<"mod">>, <<"s">> >>)
OverrideFs(host) ==
    WriteFile(WriteFile(WriteFile(InitFs, TemplateSource, TextFile),
                        ModuleTemplateSource, EditedFile),
              HostDoc, JsonFile(host))

InitOverride ==
    /\ \E host \in HostContents : fs = OverrideFs(host)
    /\ fs0 = fs
    /\ location = ReconRoot
    /\ val \in OverrideTrees
    /\ given = val
    /\ text = NOTHING
    /\ prev = NOTHING
    /\ hist = <<>>
    /\ op = [name |-> "init"]
    /\ err = "none"
    /\ SweepIdle

SetSweep(st) ==
    /\ todo' = st.todo
    /\ applied' = st.applied
    /\ fs' = st.fs
    /\ sweep' = st.sweep
    /\ err' = st.err

StartOverride ==
    /\ sweep = "idle"
    /\ LastOp \in {"init", "claims"}
    /\ err = "none"
    /\ SetSweep(Continue(<<Frame(val, <<>>)>>, <<>>, fs))
    /\ hist' = Append(hist, "override")
    /\ op' = [name |-> "override"]
    /\ fs0' = fs
    /\ UNCHANGED <<location, text, val, prev, given>>

OverrideStep ==
    /\ sweep = "running"
    /\ SetSweep(override_step(todo, applied, fs, TutorRoot, ReconRoot))
    /\ UNCHANGED <<location, text, val, prev, hist, op, fs0, given>>

Claims ==
    /\ sweep = "idle"
    /\ hist = <<>>
    /\ prev' = claims(val, <<>>)
    /\ hist' = <<"claims">>
    /\ op' = [name |-> "claims"]
    /\ UNCHANGED <<fs, location, text, val, err, fs0, given, todo, applied, sweep>>

RemovePairs ==
    {<<Pair(W("target"), W("h"))>>, <<Pair(W("target"), W("g"))>>,
     <<Pair(W("dest"), W("d"))>>,
     <<Pair(W("target"), W("h")), Pair(W("overrides"), Dict(<<Pair(W("a"), Num(1))>>))>>}

RemoveWhere(pairs) ==
    /\ sweep = "idle"
    /\ hist = <<>>
    /\ LET r == remove_where(val, pairs)
       IN  /\ err' = r.err
           /\ val' = IF r.err = "none" THEN SetOverrides(val, r.v.overrides) ELSE val
           /\ prev' = IF r.err = "none" THEN r.v.removed ELSE prev
    /\ hist' = <<"remove_where">>
    /\ op' = [name |-> "remove_where", pairs |-> pairs]
    /\ UNCHANGED <<fs, location, text, fs0, given, todo, applied, sweep>>

NextOverride ==
    \/ Claims
    \/ StartOverride
    \/ OverrideStep
    \/ \E pairs \in RemovePairs : RemoveWhere(pairs)

SpecOverride == InitOverride /\ [][NextOverride]_vars

(***************************************************************************)
(* Properties of the codec.                                                *)
(***************************************************************************)
Flat(d) == d.k = "dict" /\ \A i \in 1..Len(d.pairs) : d.pairs[i].val.k = "str"
MarkedKey(d) == \E i \in 1..Len(d.pairs) : StartsWith(d.pairs[i].key.s, MARKER)
EscapedThenLoaded ==
    /\ Len(hist) = 2
    /\ hist[1] \in {"escape", "escape_keys"}
    /\ hist[2] = "loads"

\* C1: a top-level pair whose value is escape(s) decodes to s, whatever
\* number of markers s begins with; the same holds for an escaped key.
EscapeRoundTrip ==
    (EscapedThenLoaded /\ Flat(prev) /\ (hist[1] = "escape_keys" \/ ~MarkedKey(prev)))
        => /\ err = "none"
           /\ ValEq(val, prev)
           /\ fs = fs0

EscapeRoundTripWitness ==
    /\ EscapedThenLoaded
    /\ hist[1] = "escape_keys"
    /\ prev = Dict(<<Pair(Str(<<MARKER, "#", "a">>), Str(<<MARKER, "#", "a">>))>>)
    /\ text = Dict(<<Pair(Str(<<MARKER, MARKER, "#", "a">>),
                          Str(<<MARKER, MARKER, "#", "a">>))>>)
    /\ val = prev

RECURSIVE NoIgnoreMarkers(_)
NoIgnoreMarkers(v) ==
    CASE v.k = "str" -> Take2(v.s) # <<MARKER, "#">>
      [] v.k = "list" -> \A i \in 1..Len(v.items) : NoIgnoreMarkers(v.items[i])
      [] v.k = "dict" -> \A i \in 1..Len(v.pairs) :
                            /\ NoIgnoreMarkers(v.pairs[i].key)
                            /\ NoIgnoreMarkers(v.pairs[i].val)
      [] OTHER -> TRUE

RECURSIVE PlainKeys(_)
PlainKeys(v) ==
    CASE v.k = "list" -> \A i \in 1..Len(v.items) : PlainKeys(v.items[i])
      [] v.k = "dict" -> \A i \in 1..Len(v.pairs) :
                            /\ ~StartsWith(v.pairs[i].key.s, MARKER)
                            /\ PlainKeys(v.pairs[i].val)
      [] OTHER -> TRUE

\* C2: for a value tree x without ignore markers, decoding the text the
\* encoder produces for x yields a tree equal to x.
CodecRoundTrip ==
    (hist = <<"dumps", "loads">> /\ PlainJson(prev) /\ PlainKeys(prev)
     /\ NoIgnoreMarkers(prev))
        => err = "none" /\ ValEq(val, prev)

DecodedKey(key) ==
    IF Take2(key.s) = <<MARKER, MARKER>> THEN Str(Drop(key.s, 1)) ELSE key
IsIgnored(v) == v.k = "str" /\ Take2(v.s) = <<MARKER, "#">>
KeptKeys(raw) ==
    {DecodedKey(raw.pairs[i].key) :
        i \in {j \in 1..Len(raw.pairs) :
                  ~IsIgnored(raw.pairs[j].val) /\ raw.pairs[j].key # TypeTag}}
RECURSIVE OnlyIgnoredDropped(_, _)
OnlyIgnoredDropped(raw, dec) ==
    CASE dec.k = "custom" -> Keys(dec.fields) = KeptKeys(raw)
      [] dec.k = "dict" ->
            /\ Keys(dec.pairs) = KeptKeys(raw)
            /\ \A i \in 1..Len(raw.pairs) :
                  LET key == DecodedKey(raw.pairs[i].key)
                  IN  (raw.pairs[i].val.k = "dict" /\ HasKey(dec.pairs, key))
                          => OnlyIgnoredDropped(raw.pairs[i].val,
                                                Lookup(dec.pairs, key))
      [] OTHER -> FALSE

\* C3: in every object of a decoded document the pairs whose value begins
\* with the ignore prefix are absent and every other pair is present, also
\* in the fields handed to a custom type's factory.
IgnoreElimination ==
    (hist = <<"loads">> /\ err = "none" /\ given \in StringDocs \cup CustomDocs
     /\ PlainKeys(Dict(DictPop(given.pairs, TypeTag))))
        => OnlyIgnoredDropped(given, val)

\* C4: with x = decode(d), decode(encode(x)) equals x.
IgnoreIdempotent ==
    (hist = <<"loads", "dumps", "loads">> /\ PlainKeys(given))
        => err = "none" /\ ValEq(val, prev)

UnifiedRef(r) == Take2(r) = <<MARKER, "+">> /\ Len(r) > 2
RelativeRef(r) ==
    \/ UnifiedRef(r) /\ r[3] # "/"
    \/ Take2(r) = <<MARKER, ".">>
AbsoluteRef(r) ==
    \/ UnifiedRef(r) /\ r[3] = "/"
    \/ Take2(r) = <<MARKER, "/">>
GivenRef == Lookup(given.pairs, W("k")).s
RefTarget(r, loc) == Join(loc, Path(Drop(r, 2)))
LoadedReference ==
    /\ hist # <<>>
    /\ hist[1] = "loads"
    /\ given \in RefDocs
    /\ UnifiedRef(GivenRef)
    /\ location # NOTHING \/ AbsoluteRef(GivenRef)
PointsAt(v, path) ==
    /\ v.k \in {"remote", "custom"}
    /\ v.target # NOTHING
    /\ Resolve(v.target.p) = Resolve(path)

\* C5: decoding a reference to a path that does not exist does not fail,
\* leaves the file {} at that path and puts an empty mapping carrying the
\* path in the tree.
MissingReferenceScaffolds ==
    LET path == RefTarget(GivenRef, location)
    IN  (hist = <<"loads">> /\ LoadedReference /\ ~exists(InitFs, path)
         /\ IsDir(InitFs, parent(path)))
            => /\ err = "none"
               /\ IsFile(fs, path)
               /\ fs[Resolve(path)] = JsonFile(Dict(<<>>))
               /\ val.k = "dict"
               /\ HasKey(val.pairs, W("k"))
               /\ Lookup(val.pairs, W("k")).k = "remote"
               /\ Lookup(val.pairs, W("k")).pairs = <<>>
               /\ PointsAt(Lookup(val.pairs, W("k")), path)

\* C6: without a location a relative reference raises and touches no
\* file, and an absolute reference is resolved.
RelativeNeedsLocation ==
    (hist = <<"loads">> /\ given \in RefDocs /\ location = NOTHING)
        => /\ RelativeRef(GivenRef) => err # "none" /\ fs = fs0
           /\ (AbsoluteRef(GivenRef) /\ IsDir(InitFs, parent(Path(Drop(GivenRef, 2)))))
                  => err = "none"

\* C7: decoding a parent document that references file f and encoding it
\* again with write_remote_mappings succeeds, leaves f equivalent and
\* yields a reference string that resolves to f.
ReferenceRoundTrip ==
    LET path == RefTarget(GivenRef, location)
    IN  (LoadedReference /\ IsFile(InitFs, path))
            => /\ err = "none"
               /\ hist = <<"loads", "dumps">> /\ op.write_remote_mappings
                     => /\ ValEq(fs[Resolve(path)].v, InitFs[Resolve(path)].v)
                        /\ text.k = "dict"
                        /\ HasKey(text.pairs, W("k"))
                        /\ Lookup(text.pairs, W("k")).k = "str"
                        /\ UnifiedRef(Lookup(text.pairs, W("k")).s)
                        /\ Resolve(RefTarget(Lookup(text.pairs, W("k")).s, location))
                               = Resolve(path)

\* C8: when serialization raises while dump writes to an existing file,
\* dump raises and the file has the content it had before the call.
DumpRestoresOnFailure ==
    (LastOp = "dump" /\ op.backup # "" /\ IsFile(fs0, op.dest) /\ err = "IOError")
        => /\ IsFile(fs, op.dest)
           /\ fs[Resolve(op.dest)] = fs0[Resolve(op.dest)]

(***************************************************************************)
(* Properties of the override tree.                                        *)
(***************************************************************************)
RECURSIVE NodeAt(_, _)
NodeAt(o, pos) ==
    IF pos = <<>> THEN o
    ELSE IF o.type = "override-reference" THEN NodeAt(Field(o, "override"), Tail(pos))
    ELSE NodeAt(Field(o, "overrides").items[pos[1]], Tail(pos))

RECURSIVE Leaves(_, _)
RECURSIVE LeavesEach(_, _, _)
LeavesEach(items, i, pos) ==
    IF i > Len(items) THEN <<>>
    ELSE Leaves(items[i], Append(pos, i)) \o LeavesEach(items, i + 1, pos)
Leaves(o, pos) ==
    IF o.type \in {"override-sequence", "override-module"}
    THEN LeavesEach(Field(o, "overrides").items, 1, pos)
    ELSE IF o.type = "override-reference"
    THEN Leaves(Field(o, "override"), Append(pos, 1))
    ELSE <<pos>>

IsPrefixOf(a, b) == Len(a) <= Len(b) /\ SubSeq(b, 1, Len(a)) = a

RECURSIVE GetNested(_, _)
GetNested(v, keys) ==
    IF keys = <<>> THEN v
    ELSE IF v.k = "dict" /\ HasKey(v.pairs, keys[1])
    THEN GetNested(Lookup(v.pairs, keys[1]), Tail(keys))
    ELSE NOTHING

Writes(leaf) ==
    IF leaf.type = "json" THEN walk_dict(Field(leaf, "overrides"), <<>>) ELSE <<>>
HostValue(leaf, keys) ==
    GetNested(fs[Resolve(HostPath(TutorRoot, Field(leaf, "target")))].v, keys)
Overlaps(a, b) ==
    /\ a.type = "json" /\ b.type = "json"
    /\ Field(a, "target") = Field(b, "target")
SameKey(a, b) ==
    /\ Overlaps(a, b)
    /\ \E i \in 1..Len(Writes(a)), j \in 1..Len(Writes(b)) :
          /\ Writes(a)[i].keys = Writes(b)[j].keys
          /\ Writes(a)[i].val # Writes(b)[j].val

\* C9: the children of a sequence are applied in list order, one after the
\* other, and of the children that write a key of a host target the one
\* that comes last in the list gives the key its value after the sweep.
SequenceAppliesInListOrder ==
    LET order == Leaves(val, <<>>)
        leaf(j) == NodeAt(val, order[j])
    IN  /\ IsPrefixOf(applied, order)
        /\ sweep = "done" => applied = order
        /\ sweep = "done" =>
              \A j \in 1..Len(order) : \A w \in 1..Len(Writes(leaf(j))) :
                  LET mine == Writes(leaf(j))[w]
                  IN  (\A i \in (j + 1)..Len(order) :
                          Overlaps(leaf(i), leaf(j)) =>
                              \A u \in 1..Len(Writes(leaf(i))) :
                                  /\ ~IsPrefixOf(Writes(leaf(i))[u].keys, mine.keys)
                                  /\ ~IsPrefixOf(mine.keys, Writes(leaf(i))[u].keys))
                          => HostValue(leaf(j), mine.keys) = mine.val

SequenceAppliesInListOrderWitness ==
    LET order == Leaves(val, <<>>)
        leaf(j) == NodeAt(val, order[j])
    IN  /\ sweep = "done"
        /\ Len(applied) = MaxLeaves
        /\ SameKey(leaf(1), leaf(2))
        /\ SameKey(leaf(2), leaf(3))
        /\ HostValue(leaf(3), <<W("a")>>) = Writes(leaf(3))[1].val
        /\ fs # fs0

\* C10: claims maps every key-tuple claimed in the tree to the instance
\* that claims it last in depth-first document order.
ClaimsLastWriterWins ==
    LET order == Leaves(val, <<>>)
        own(j) == Keys(claims(NodeAt(val, order[j]), order[j]))
        claimed == UNION {own(j) : j \in 1..Len(order)}
        last(key) == CHOOSE j \in 1..Len(order) :
                        /\ key \in own(j)
                        /\ \A i \in (j + 1)..Len(order) : key \notin own(i)
    IN  (hist # <<>> /\ hist[1] = "claims")
            => /\ Keys(prev) = claimed
               /\ Cardinality(claimed) = Len(prev)
               /\ \A key \in claimed : Lookup(prev, key) = order[last(key)]

ClaimsLastWriterWinsWitness ==
    LET order == Leaves(val, <<>>)
    IN  /\ hist = <<"claims">>
        /\ Len(order) = MaxLeaves
        /\ Len(order[2]) > 1
        /\ \A j \in 1..Len(order) : NodeAt(val, order[j]).type = "json"
        /\ SameKey(NodeAt(val, order[1]), NodeAt(val, order[2]))
        /\ ~Overlaps(NodeAt(val, order[2]), NodeAt(val, order[3]))
        /\ Lookup(prev, <<W("h"), W("a")>>) = order[2]

RECURSIVE KeptEach(_, _, _)
KeptEach(items, i, pairs) ==
    IF i > Len(items) THEN <<>>
    ELSE IF match(items[i], pairs).v THEN KeptEach(items, i + 1, pairs)
    ELSE <<IF IsSequence(items[i])
           THEN SetOverrides(items[i],
                             KeptEach(Field(items[i], "overrides").items, 1, pairs))
           ELSE items[i]>>
         \o KeptEach(items, i + 1, pairs)

RECURSIVE MatchingEach(_, _, _)
MatchingEach(items, i, pairs) ==
    IF i > Len(items) THEN <<>>
    ELSE (IF match(items[i], pairs).v THEN <<items[i]>>
          ELSE IF IsSequence(items[i])
          THEN MatchingEach(Field(items[i], "overrides").items, 1, pairs)
          ELSE <<>>)
         \o MatchingEach(items, i + 1, pairs)

\* C11: remove_where removes every matching child at every level of nested
\* sequences, returns exactly the removed children and leaves the others
\* in place and in order.
RemoveWhereRemovesEveryMatch ==
    (hist = <<"remove_where">> /\ err = "none")
        => /\ Field(val, "overrides").items
                  = KeptEach(Field(given, "overrides").items, 1, op.pairs)
           /\ prev = MatchingEach(Field(given, "overrides").items, 1, op.pairs)

(***************************************************************************)
(* The state machine of scaffolding: a command holds an override tree and  *)
(* calls scaffold() on it; between two calls the user may edit a value of  *)
(* a config override or the text of the template in the override root.     *)
(***************************************************************************)
MaxScaffold == 2

ScaffoldTemplate ==
    Custom("template",
           <<Pair(W("src"), Str(<<"templates", "/", "s">>)), Pair(W("dest"), W("d"))>>,
           NOTHING)
ScaffoldLeaves ==
    {JsonLeaf("h", Dict(<<Pair(W("a"), Num(1))>>)),
     JsonLeaf("h", Dict(<<Pair(W("a"), Dict(<<Pair(W("c"), Num(1))>>))>>)),
     JsonLeaf("h", Dict(<<>>)),
     JsonLeaf("h", Dict(<<Pair(W("a"), Dict(<<>>))>>)),
     JsonLeaf("g", Dict(<<>>)),
     JsonLeaf("h", Dict(<<Pair(W("z"), Str(<<MARKER, MARKER, "a">>))>>)),
     ScaffoldTemplate}
ScaffoldTrees ==
    LET lists == UNION {[1..n -> ScaffoldLeaves] : n \in 1..MaxScaffold}
    IN  {SequenceNode(ls) : ls \in lists}
        \cup {SequenceNode(<<Grouped(kind, ls)>>) : ls \in lists, kind \in {"module", "ref"}}

ReconTemplate == AbsPath(<< <<"r">>, <<"templates">>, <<"s">> >>)
PackageTemplate == AbsPath(<< <<"p">>, <<"s">> >>)
ScaffoldFs(host, present) ==
    LET f == WriteFile(OverrideFs(host), PackageTemplate, TextFile)
    IN  IF present THEN WriteFile(f, ReconTemplate, EditedFile) ELSE f

InitScaffold ==
    /\ \E host \in HostContents, present \in BOOLEAN : fs = ScaffoldFs(host, present)
    /\ fs0 = fs
    /\ location = ReconRoot
    /\ val \in ScaffoldTrees
    /\ given = val
    /\ text = NOTHING
    /\ prev = NOTHING
    /\ hist = <<>>
    /\ op = [name |-> "init"]
    /\ err = "none"
    /\ SweepIdle

Scaffold ==
    /\ err = "none"
    /\ Len(hist) < MaxOps
    /\ LET r == scaffold(val, TutorRoot, ReconRoot, fs)
       IN  /\ val' = r.node
           /\ fs' = r.fs
           /\ err' = r.err
    /\ prev' = val
    /\ fs0' = fs
    /\ hist' = Append(hist, "scaffold")
    /\ op' = [name |-> "scaffold"]
    /\ UNCHANGED <<location, text, given, todo, applied, sweep>>

RECURSIVE user_edit(_, _, _, _)
user_edit(o, pos, keys, value) ==
    IF pos = <<>>
    THEN WithOverrides(o, set_nested(Field(o, "overrides"), keys, value).v)
    ELSE IF o.type = "override-reference"
    THEN [o EXCEPT !.fields =
             DictSet(@, W("override"),
                     user_edit(Field(o, "override"), Tail(pos), keys, value))]
    ELSE SetOverrides(o, [Field(o, "overrides").items EXCEPT
                             ![pos[1]] = user_edit(@, Tail(pos), keys, value)])

EditValues == {Num(MaxVal + 1), Dict(<<Pair(W("c"), Num(MaxVal + 1))>>)}

EditOverride(i, j, value) ==
    /\ err = "none"
    /\ Len(hist) < MaxOps
    /\ LastOp = "scaffold"
    /\ i \in 1..Len(Leaves(val, <<>>))
    /\ LET pos == Leaves(val, <<>>)[i]
           leaf == NodeAt(val, pos)
       IN  /\ leaf.type = "json"
           /\ j \in 1..Len(Writes(leaf))
           /\ val' = user_edit(val, pos, Writes(leaf)[j].keys, value)
           /\ op' = [name |-> "edit", pos |-> pos, keys |-> Writes(leaf)[j].keys,
                     value |-> value]
    /\ prev' = val
    /\ fs0' = fs
    /\ hist' = Append(hist, "edit")
    /\ UNCHANGED <<fs, location, text, err, given, todo, applied, sweep>>

EditTemplate ==
    /\ err = "none"
    /\ Len(hist) < MaxOps
    /\ LastOp = "scaffold"
    /\ IsFile(fs, ReconTemplate)
    /\ fs[ReconTemplate] # EditedFile
    /\ fs' = WriteFile(fs, ReconTemplate, EditedFile)
    /\ prev' = val
    /\ fs0' = fs
    /\ hist' = Append(hist, "edit")
    /\ op' = [name |-> "edit", path |-> ReconTemplate]
    /\ UNCHANGED <<location, text, val, err, given, todo, applied, sweep>>

Save ==
    /\ err = "none"
    /\ Len(hist) < MaxOps
    /\ LastOp \in {"init", "scaffold", "edit"}
    /\ LET r == save(val, MainDoc, fs)
       IN  /\ fs' = r.fs
           /\ err' = r.err
    /\ prev' = val
    /\ fs0' = fs
    /\ hist' = Append(hist, "save")
    /\ op' = [name |-> "save", to |-> MainDoc]
    /\ UNCHANGED <<location, text, val, given, todo, applied, sweep>>

Load ==
    /\ err = "none"
    /\ Len(hist) < MaxOps
    /\ LastOp = "save"
    /\ LET r == custom_load(MainDoc, fs)
       IN  /\ val' = r.v
           /\ fs' = r.fs
           /\ err' = r.err
    /\ prev' = val
    /\ fs0' = fs
    /\ hist' = Append(hist, "load")
    /\ op' = [name |-> "load", from_ |-> MainDoc]
    /\ UNCHANGED <<location, text, given, todo, applied, sweep>>

Override ==
    /\ err = "none"
    /\ Len(hist) < MaxOps
    /\ LET st == override(val, TutorRoot, ReconRoot, fs)
       IN  /\ fs' = st.fs
           /\ err' = st.err
           /\ applied' = st.applied
    /\ prev' = val
    /\ fs0' = fs
    /\ hist' = Append(hist, "override")
    /\ op' = [name |-> "override"]
    /\ UNCHANGED <<location, text, val, given, todo, sweep>>

HostEditKeys == {<<W("a")>>, <<W("b")>>}
HostEditValue == Num(MaxVal + 2)

HostEdit(keys) ==
    /\ err = "none"
    /\ Len(hist) < MaxOps
    /\ LastOp = "override"
    /\ fs' = WriteFile(fs, HostDoc,
                       JsonFile(set_nested(fs[HostDoc].v, keys, HostEditValue).v))
    /\ prev' = val
    /\ fs0' = fs
    /\ hist' = Append(hist, "host_edit")
    /\ op' = [name |-> "host_edit", keys |-> keys]
    /\ UNCHANGED <<location, text, val, err, given, todo, applied, sweep>>

NextScaffold ==
    \/ Scaffold
    \/ Save
    \/ Load
    \/ Override
    \/ \E keys \in HostEditKeys : HostEdit(keys)
    \/ \E i \in 1..MaxScaffold, j \in 1..MaxLeaves, value \in EditValues :
           EditOverride(i, j, value)
    \/ EditTemplate

SpecScaffold == InitScaffold /\ [][NextScaffold]_vars

(***************************************************************************)
(* Properties of scaffold.                                                 *)
(***************************************************************************)
ExplicitKept(before, after) ==
    \A i \in 1..Len(Leaves(before, <<>>)) :
        LET pos == Leaves(before, <<>>)[i]
            leaf == NodeAt(before, pos)
        IN  \A j \in 1..Len(Writes(leaf)) :
                GetNested(Field(NodeAt(after, pos), "overrides"), Writes(leaf)[j].keys)
                    = Writes(leaf)[j].val

TemplateTextKept ==
    \A p \in DOMAIN fs0 : IsUnder(p, ReconRoot) => p \in DOMAIN fs /\ fs[p] = fs0[p]

JustApplied == NodeAt(val, applied'[Len(applied')])
HostFile(leaf) == Resolve(HostPath(TutorRoot, Field(leaf, "target")))
Untouched(keys, o) ==
    \A j \in 1..Len(walk_dict(o, <<>>)) :
        /\ ~IsPrefixOf(walk_dict(o, <<>>)[j].keys, keys)
        /\ ~IsPrefixOf(keys, walk_dict(o, <<>>)[j].keys)
Merged(h, o, merged) ==
    /\ \A j \in 1..Len(walk_dict(o, <<>>)) :
           GetNested(merged, walk_dict(o, <<>>)[j].keys) = walk_dict(o, <<>>)[j].val
    /\ \A j \in 1..Len(walk_dict(h, <<>>)) :
           Untouched(walk_dict(h, <<>>)[j].keys, o) =>
               GetNested(merged, walk_dict(h, <<>>)[j].keys) = walk_dict(h, <<>>)[j].val

\* C13: JSON-backed override merge: whenever override() of a JSON config has
\* been applied to its host file, the file holds the override's value at every
\* terminal key path of the overrides, and the host's former value at every
\* terminal key path of the host that the overrides do not touch.
JsonOverrideMerges ==
    [][(sweep = "running" /\ Len(applied') = Len(applied) + 1
          /\ JustApplied.type = "json")
       => Merged(fs[HostFile(JustApplied)].v, Field(JustApplied, "overrides"),
                 fs'[HostFile(JustApplied)].v)]_vars

JsonOverrideMergesWitness ==
    /\ sweep = "done"
    /\ Len(applied) = 1
    /\ NodeAt(val, applied[1]) = JsonLeaf("h", Dict(<<Pair(W("a"), Num(1))>>))
    /\ fs0[HostDoc] = JsonFile(Dict(<<Pair(W("a"), Num(0)), Pair(W("b"), Num(0))>>))
    /\ fs[HostDoc] = JsonFile(Dict(<<Pair(W("a"), Num(1)), Pair(W("b"), Num(0))>>))

NextIsJson == sweep = "running" /\ todo # <<>> /\ todo[1].node.type = "json"

\* C14: when the host JSON file a JSON config targets does not exist, its
\* override() raises, the host file is not created and no file is written.
MissingHostFileRaises ==
    [][(NextIsJson /\ HostFile(todo[1].node) \notin DOMAIN fs)
       => (sweep' = "raised" /\ err' # "none" /\ fs' = fs)]_vars

MissingHostFileRaisesWitness ==
    /\ val = SequenceNode(<<JsonLeaf("h", Dict(<<Pair(W("a"), Num(1))>>)),
                            JsonLeaf("g", Dict(<<Pair(W("a"), Num(1))>>))>>)
    /\ sweep = "raised"
    /\ err = "OSError"
    /\ applied = << <<1>> >>
    /\ HostFile(JsonLeaf("g", Dict(<<>>))) \notin DOMAIN fs

(***************************************************************************)
(* Properties of the custom types.                                         *)
(***************************************************************************)
RECURSIVE DispatchedByTag(_, _)
DispatchedByTag(raw, dec) ==
    IF HasKey(raw.pairs, TypeTag)
    THEN /\ dec.k = "custom"
         /\ W(dec.type) = Lookup(raw.pairs, TypeTag)
         /\ Keys(dec.fields) = KeptKeys(raw)
    ELSE /\ dec.k = "dict"
         /\ \A i \in 1..Len(raw.pairs) :
               LET key == DecodedKey(raw.pairs[i].key)
               IN  (raw.pairs[i].val.k = "dict" /\ HasKey(dec.pairs, key))
                       => DispatchedByTag(raw.pairs[i].val, Lookup(dec.pairs, key))

\* C15: custom-type dispatch: in a decoded document every object that has
\* the key "$t" with a registered identifier is the instance of that type
\* made from exactly the object's other pairs that are not ignored, and
\* every object without the key "$t" is a plain mapping.
CustomTypeDispatch ==
    (hist = <<"loads">> /\ err = "none" /\ given \in StringDocs \cup CustomDocs)
        => DispatchedByTag(given, val)

(***************************************************************************)
(* The state machine of the type registry: class statements that derive    *)
(* from VJSONSerializableMixin, and lookups by type id.  hist holds the    *)
(* classes defined so far, val the registry named_types.                   *)
(***************************************************************************)
MaxClasses == 3
TypeIds == {W("a"), W("b")}

\* getattr(cls, "type_id", None): the class's own attribute, else the one it
\* inherits from its base; the mixin itself (base 0) has none.
type_id_of(classes, base, own) ==
    IF own # NOTHING THEN own
    ELSE IF base = 0 THEN NOTHING
    ELSE classes[base].type_id

init_subclass_setdefault(registry, cls, type_id) ==
    IF type_id # NOTHING /\ ~HasKey(registry, type_id)
    THEN DictSet(registry, type_id, cls)
    ELSE registry

init_subclass(registry, cls, type_id) ==
    IF type_id # NOTHING THEN DictSet(registry, type_id, cls) ELSE registry

registered(registry, type_id) ==
    IF HasKey(registry, type_id) THEN Ok(Lookup(registry, type_id), <<>>)
    ELSE Raise("KeyError", <<>>)

InitRegistry ==
    /\ val = <<>>
    /\ hist = <<>>
    /\ prev = NOTHING
    /\ op = [name |-> "init"]
    /\ err = "none"
    /\ fs = InitFs
    /\ fs0 = InitFs
    /\ location = NOTHING
    /\ text = NOTHING
    /\ given = NOTHING
    /\ SweepIdle

DefineClass(base, own) ==
    /\ Len(hist) < MaxClasses
    /\ base \in 0..Len(hist)
    /\ LET cls == Len(hist) + 1
           type_id == type_id_of(hist, base, own)
       IN  /\ hist' = Append(hist, [name |-> "class", base |-> base, type_id |-> type_id])
           /\ val' = init_subclass(val, cls, type_id)
    /\ op' = [name |-> "class"]
    /\ err' = "none"
    /\ UNCHANGED <<fs, location, text, prev, fs0, given, todo, applied, sweep>>

ByTypeId(type_id) ==
    /\ op' = [name |-> "by_type_id", type_id |-> type_id]
    /\ prev' = registered(val, type_id).v
    /\ err' = registered(val, type_id).err
    /\ UNCHANGED <<fs, location, text, val, hist, fs0, given, todo, applied, sweep>>

NextRegistry ==
    \/ \E base \in 0..MaxClasses, own \in TypeIds \cup {NOTHING} : DefineClass(base, own)
    \/ \E type_id \in TypeIds : ByTypeId(type_id)

SpecRegistry == InitRegistry /\ [][NextRegistry]_vars

DefinedWith(type_id) == {i \in 1..Len(hist) : hist[i].type_id = type_id}
Latest(S) == CHOOSE i \in S : \A j \in S : j <= i

\* C16: after any sequence of class definitions by_type_id(t) returns the
\* class most recently defined with type id t and raises KeyError when no
\* class was defined with t; an id that is registered stays registered.
RegistryLastDefinitionWins ==
    /\ [](op.name = "by_type_id" =>
            IF DefinedWith(op.type_id) = {} THEN err = "KeyError"
            ELSE err = "none" /\ prev = Latest(DefinedWith(op.type_id)))
    /\ [][Keys(val) \subseteq Keys(val')]_vars

RegistryLastDefinitionWinsWitness ==
    /\ Len(hist) = MaxClasses
    /\ Cardinality(DefinedWith(W("a"))) >= 2
    /\ hist[Len(hist)].type_id # W("a")
    /\ op = [name |-> "by_type_id", type_id |-> W("a")]
    /\ err = "none"
    /\ prev = Latest(DefinedWith(W("a")))

(***************************************************************************)
(* Properties of the module.                                               *)
(***************************************************************************)
ParentOf(pos) == NodeAt(val, SubSeq(pos, 1, Len(pos) - 1))
ModuleRoot(m) ==
    Join(Join(ReconRoot, Path(<<"modules">>)), Path(Lookup(Field(m, "info").pairs, W("name")).s))

\* C17: module hook: when a module named n is applied, every child template
\* override with source path s renders its template from
\* recon_root/modules/n/s, not from recon_root/s.
ModuleHookRendersFromModule ==
    [][(sweep = "running" /\ Len(applied') = Len(applied) + 1
          /\ JustApplied.type = "template"
          /\ ParentOf(applied'[Len(applied')]).type = "override-module")
       => fs'[Resolve(HostPath(TutorRoot, Field(JustApplied, "dest")))]
              = RenderedFile(fs[Resolve(Join(ModuleRoot(ParentOf(applied'[Len(applied')])),
                                               Path(Field(JustApplied, "src").s)))])]_vars

(***************************************************************************)
(* Properties of the encoder modes.                                        *)
(***************************************************************************)
RemoteValue == Lookup(prev.pairs, W("k"))
Serialized == Lookup(text.pairs, W("k"))
BackingFile(o) ==
    Resolve(IF is_absolute(o.target.p) THEN o.target.p ELSE Join(location, o.target.p))

ReferenceTo(s, o) ==
    \/ /\ Take2(s) = <<MARKER, "/">>
       /\ Path(Drop(s, 2)) = o.target.p
    \/ /\ SubSeq(s, 1, 3) = <<MARKER, ".", "/">>
       /\ IF is_absolute(o.target.p)
          THEN location # NOTHING /\ Join(location, Path(Drop(s, 3))) = o.target.p
          ELSE Path(Drop(s, 3)) = o.target.p

RECURSIVE NoReference(_)
NoReference(v) ==
    CASE v.k = "str" -> ~(Len(v.s) >= 2 /\ v.s[1] = MARKER /\ v.s[2] \in {"/", ".", "+"})
      [] v.k = "dict" -> \A i \in 1..Len(v.pairs) : NoReference(v.pairs[i].val)
      [] v.k = "list" -> \A i \in 1..Len(v.items) : NoReference(v.items[i])
      [] OTHER -> v.k = "num"

RECURSIVE Inlined(_, _)
Inlined(o, out) ==
    /\ out.k = "dict"
    /\ Keys(out.pairs) = Keys(o.pairs)
    /\ \A key \in Keys(o.pairs) :
          IF Lookup(o.pairs, key).k = "remote"
          THEN Inlined(Lookup(o.pairs, key), Lookup(out.pairs, key))
          ELSE Lookup(out.pairs, key) = Lookup(o.pairs, key)

Rewritten(o) ==
    /\ BackingFile(o) \in DOMAIN fs
    /\ fs[BackingFile(o)].k = "json"
    /\ Keys(fs[BackingFile(o)].v.pairs) = Keys(o.pairs)
    /\ \A key \in Keys(o.pairs) :
          Lookup(o.pairs, key).k # "remote"
              => Lookup(fs[BackingFile(o)].v.pairs, key) = Lookup(o.pairs, key)

\* C18: encoder modes for a reference-bearing value: with neither flag it
\* is serialized as a reference string to its target and no file is touched;
\* with expand_remote_mappings it is inlined as an object, the references
\* nested in it too, and no reference string stands for it; with
\* write_remote_mappings its backing file is rewritten with its current
\* content; with both flags the file is written and the value is inlined.
EncoderModes ==
    (hist = <<"dumps">> /\ given \in RemoteTrees \cup NestedRemoteTrees) =>
        /\ ~op.write_remote_mappings => err = "none" /\ fs = fs0
        /\ err = "none" =>
              /\ ~op.expand_remote_mappings =>
                     Serialized.k = "str" /\ ReferenceTo(Serialized.s, RemoteValue)
              /\ op.expand_remote_mappings =>
                     Inlined(RemoteValue, Serialized) /\ NoReference(Serialized)
              /\ op.write_remote_mappings => Rewritten(RemoteValue)

(***************************************************************************)
(* Properties of the saved tree.                                           *)
(***************************************************************************)
RECURSIVE PlainTree(_)
PlainTree(o) ==
    CASE o.k = "custom" -> \A i \in 1..Len(o.fields) : PlainTree(o.fields[i].val)
      [] o.k = "list" -> \A i \in 1..Len(o.items) : PlainTree(o.items[i])
      [] OTHER -> NoIgnoreMarkers(o)

RECURSIVE Tagged(_, _)
Tagged(o, obj) ==
    /\ obj.k = "dict"
    /\ HasKey(obj.pairs, TypeTag)
    /\ Lookup(obj.pairs, TypeTag) = W(o.type)
    /\ IsSequence(o) =>
          /\ Len(Lookup(obj.pairs, W("overrides")).items) = Len(Field(o, "overrides").items)
          /\ \A i \in 1..Len(Field(o, "overrides").items) :
                Tagged(Field(o, "overrides").items[i],
                       Lookup(obj.pairs, W("overrides")).items[i])
    /\ o.type = "override-reference" =>
          Tagged(Field(o, "override"), Lookup(obj.pairs, W("override")))

\* C19: override-tree round trip: the object saved for a tree without ignore
\* markers carries at every node the "$t" tag of the node's type, and loading
\* what was saved yields a tree with the same node types in the same order
\* and equal fields.
TreeRoundTrip ==
    /\ (hist # <<>> /\ LastOp = "save" /\ err = "none")
           => Tagged(val, fs[MainDoc].v)
    /\ (hist # <<>> /\ LastOp = "load" /\ PlainTree(prev))
           => err = "none" /\ ValEq(val, prev)

(***************************************************************************)
(* Properties of the decoder's errors.                                     *)
(***************************************************************************)
ReservedKey(key) ==
    Take2(key.s) \in {<<MARKER, "#">>, <<MARKER, "+">>, <<MARKER, ".">>, <<MARKER, "/">>}
UnknownType(pair) ==
    pair.key = TypeTag /\ ~(pair.val.k = "str" /\ pair.val.s \in {<<t>> : t \in named_types})
Referenced(v, loc) ==
    IF v.k = "str" /\ UnifiedRef(v.s) /\ (AbsoluteRef(v.s) \/ loc # NOTHING)
    THEN {Resolve(IF AbsoluteRef(v.s) THEN Path(Drop(v.s, 2)) ELSE RefTarget(v.s, loc))}
         \cap {q \in DOMAIN fs0 : fs0[q].k = "json"}
    ELSE {}

RECURSIVE Offends(_, _, _)
Offends(raw, loc, depth) ==
    CASE raw.k = "dict" ->
            \E i \in 1..Len(raw.pairs) :
                \/ ReservedKey(raw.pairs[i].key)
                \/ UnknownType(raw.pairs[i])
                \/ Offends(raw.pairs[i].val, loc, depth)
                \/ /\ depth > 0
                   /\ \E q \in Referenced(raw.pairs[i].val, loc) :
                          Offends(fs0[q].v, parent(q), depth - 1)
      [] raw.k = "list" -> \E i \in 1..Len(raw.items) : Offends(raw.items[i], loc, depth)
      [] OTHER -> FALSE

\* C20: no silent continuation on decode: when a key of the top-level
\* document, or of a document its references reach, begins with the ignore
\* prefix or a reference prefix, or a "$t" tag names a type that is not
\* registered, the load raises and returns no tree.
NoSilentDecode ==
    (hist = <<"loads">> /\ Offends(given, location, MaxRefDepth))
        => err # "none" /\ val = NOTHING

NoSilentDecodeWitness ==
    /\ hist = <<"loads">>
    /\ given = Dict(<<Pair(W("x"), W("v")), Pair(W("k"), Str(<<MARKER, "+", "b">>))>>)
    /\ location # NOTHING
    /\ Offends(given, location, MaxRefDepth)
    /\ err = "AssertionError"
    /\ val = NOTHING

(***************************************************************************)
(* Properties of a sweep that fails.                                       *)
(***************************************************************************)
NextIsLeaf ==
    /\ sweep = "running"
    /\ todo # <<>>
    /\ todo[1].node.type \in {"json", "template"}
NextLeafResult == override_leaf(todo[1].node, TutorRoot, ReconRoot, fs)

RECURSIVE Replayed(_)
Replayed(i) ==
    IF i = 0 THEN fs0
    ELSE override_leaf(NodeAt(val, applied[i]), TutorRoot, ReconRoot, Replayed(i - 1)).fs

\* C21: no rollback across a sweep: when the override of a child raises, the
\* sweep ends with that error, the host holds the effects of the children
\* applied before it, and no child after it is applied.
NoRollbackAcrossSweep ==
    /\ [](sweep = "raised" =>
            /\ err # "none"
            /\ todo = <<>>
            /\ IsPrefixOf(applied, Leaves(val, <<>>))
            /\ Len(applied) < Len(Leaves(val, <<>>))
            /\ fs = Replayed(Len(applied)))
    /\ [][(NextIsLeaf /\ NextLeafResult.err # "none")
            => /\ sweep' = "raised"
               /\ err' = NextLeafResult.err
               /\ applied' = applied
               /\ fs' = fs]_vars

NoRollbackAcrossSweepWitness ==
    /\ val = SequenceNode(<<JsonLeaf("h", Dict(<<Pair(W("a"), Num(1))>>)),
                            JsonLeaf("g", Dict(<<Pair(W("a"), Num(1))>>)),
                            JsonLeaf("h", Dict(<<Pair(W("a"), Num(2))>>))>>)
    /\ sweep = "raised"
    /\ err = "OSError"
    /\ applied = << <<1>> >>
    /\ fs # fs0
    /\ GetNested(fs[HostDoc].v, <<W("a")>>) = Num(1)

(***************************************************************************)
(* Properties of dump's backup file.                                       *)
(***************************************************************************)
BackupOf(dest) == Resolve(BackupPath(dest, ".bak"))

\* C22: after dump returns or raises, with a backup or without one, no
\* backup file "<dest>.bak" is on disk.
NoBackupRemains ==
    LastOp = "dump" => BackupOf(op.dest) \notin DOMAIN fs

NoBackupRemainsWitness ==
    /\ LastOp = "dump"
    /\ op.backup = ".bak"
    /\ err = "IOError"
    /\ IsFile(fs0, op.dest)
    /\ fs # fs0
    /\ BackupOf(op.dest) \notin DOMAIN fs

(***************************************************************************)
(* Properties of repeated calls of override.                               *)
(***************************************************************************)
OverrideCalled == hist' = Append(hist, "override")
TouchedByApplied(path, keys) ==
    \E i \in 1..Len(applied') :
        LET leaf == NodeAt(val, applied'[i])
        IN  /\ leaf.type = "json"
            /\ HostFile(leaf) = path
            /\ ~Untouched(keys, Field(leaf, "overrides"))
HostKept(path) ==
    \A j \in 1..Len(walk_dict(fs[path].v, <<>>)) :
        LET entry == walk_dict(fs[path].v, <<>>)[j]
        IN  ~TouchedByApplied(path, entry.keys)
                => GetNested(fs'[path].v, entry.keys) = entry.val

OneJsonConfig ==
    /\ Len(Leaves(val, <<>>)) = 1
    /\ NodeAt(val, Leaves(val, <<>>)[1]).type = "json"

\* C23: override is idempotent and reads the host afresh: for a tree that
\* holds one JSON config, an override that directly follows a completed
\* override leaves every file as it is; and an override called after the
\* host file was changed keeps the changed host values at every key the
\* applied overrides do not write.
OverrideIdempotentAndFresh ==
    /\ [][(OverrideCalled /\ LastOp = "override" /\ err = "none" /\ OneJsonConfig)
            => (err' = "none" /\ fs' = fs)]_vars
    /\ [][(OverrideCalled /\ LastOp = "host_edit" /\ err' = "none")
            => HostKept(HostDoc)]_vars

OverrideIdempotentAndFreshWitness ==
    /\ hist = <<"override", "host_edit", "override">>
    /\ err = "none"
    /\ val = SequenceNode(<<JsonLeaf("h", Dict(<<Pair(W("a"), Num(1))>>))>>)
    /\ fs[HostDoc] = JsonFile(Dict(<<Pair(W("a"), Num(1)), Pair(W("b"), HostEditValue)>>))

(***************************************************************************)
(* Properties of nested references.                                        *)
(***************************************************************************)
NoFileElsewhere == DOMAIN fs \subseteq DOMAIN InitFs \cup {SubTarget}

\* C24: nested references use the directory of the sub-document in both
\* directions: decoding a document at /r that references /r/sub/d, whose
\* content references "g", reads /r/sub/g and creates no file; and after
\* the tree was encoded at /r with its remote mappings written, decoding
\* the output reads the nested mapping from /r/sub/g again and creates no
\* file elsewhere.
NestedReferencesUseSubDirectory ==
    /\ (hist = <<"loads">> /\ given = SubDirDoc /\ location = ReconRoot)
          => /\ err = "none"
             /\ fs = fs0
             /\ PointsAt(Lookup(Lookup(val.pairs, W("k")).pairs, W("n")), SubLeaf)
    /\ (hist = <<"dumps", "loads">> /\ given = SubDirTree /\ location = ReconRoot
          /\ IsFile(fs0, SubTarget))
          => /\ NoFileElsewhere
             /\ err = "none"
             /\ PointsAt(Lookup(Lookup(val.pairs, W("k")).pairs, W("n")), SubLeaf)

(***************************************************************************)
(* Properties of the expansion of nested objects.                          *)
(***************************************************************************)
NestedDocs ==
    {Dict(<<Pair(W("k"), Nest(Str(s), d)), Pair(W("x"), W("v"))>>) :
        s \in Strings, d \in 1..MaxNest}

\* C25: each object is expanded once, whatever its nesting depth: a
\* document in which escape(s) is a value inside d >= 1 levels of nested
\* plain objects decodes to a tree that holds exactly s at that position.
ExpandedExactlyOnce ==
    (EscapedThenLoaded /\ hist[1] = "escape" /\ prev \in NestedDocs)
        => /\ err = "none"
           /\ ValEq(val, prev)

(***************************************************************************)
(* Properties of custom-typed objects loaded through a reference.          *)
(***************************************************************************)
ModuleReferences ==
    {Dict(<<Pair(W("k"), Str(r))>>) :
        r \in {<<MARKER, "+", "m">>, <<MARKER, "+", "/", "r", "/", "m">>,
               <<MARKER, ".", "/", "m">>}}
NamesFile(v, path, loc) ==
    /\ v.k = "str"
    /\ \/ /\ Take2(v.s) = <<MARKER, "/">>
          /\ Path(Drop(v.s, 2)) = path
       \/ /\ SubSeq(v.s, 1, 3) = <<MARKER, ".", "/">>
          /\ Join(loc, Path(Drop(v.s, 3))) = path
       \/ /\ Take2(v.s) = <<MARKER, "+">>
          /\ Path(Drop(v.s, 2)) \in {path, relative_to(path, loc)}

\* C26: a custom-typed object loaded through a reference keeps its
\* reference: decoding a document that references the module file and
\* encoding the tree again with the default flags gives a document whose
\* value at that position is a reference string naming the module file.
CustomReferenceKept ==
    (hist = <<"loads", "dumps">> /\ given \in ModuleReferences /\ location = ReconRoot
       /\ op.write_remote_mappings /\ ~op.expand_remote_mappings)
        => /\ err = "none"
           /\ NamesFile(Lookup(text.pairs, W("k")), ModuleDoc, location)

(***************************************************************************)
(* Properties that relate claims to the effect of override.                *)
(***************************************************************************)
AllJsonOn(target) ==
    \A i \in 1..Len(Leaves(val, <<>>)) :
        LET leaf == NodeAt(val, Leaves(val, <<>>)[i])
        IN  leaf.type = "json" /\ Field(leaf, "target") = target

\* C27: claims agrees with the applied effect: for a tree of JSON configs
\* on one target whose override completes, the host file holds, at every
\* key path of the claims, the value the claimed owner's overrides have at
\* that path.
ClaimsAgreeWithEffect ==
    (hist = <<"claims", "override">> /\ sweep = "done" /\ AllJsonOn(W("h")))
        => \A i \in 1..Len(prev) :
               GetNested(fs[HostDoc].v, Tail(prev[i].key))
                   = GetNested(Field(NodeAt(val, prev[i].val), "overrides"),
                               Tail(prev[i].key))

(***************************************************************************)
(* Properties of scaffold followed by override.                            *)
(***************************************************************************)
HostValues(path) ==
    {walk_dict(fs[path].v, <<>>)[j].val : j \in 1..Len(walk_dict(fs[path].v, <<>>))}

\* C28: placeholders never reach the host: after any sequence of scaffold,
\* override, save and load calls on the override tree, no value of the host
\* file is an ignore-marker placeholder string.
PlaceholdersNeverReachHost ==
    \A value \in HostValues(HostDoc) : ~IsIgnored(value)

(***************************************************************************)
(* Properties of dumps with its default arguments.                         *)
(***************************************************************************)
\* C29: serializing to a string is read-only: dumps called with its default
\* arguments (remote mappings written, not expanded) on a tree that holds
\* remote mappings leaves every file as it was.
DumpsIsReadOnly ==
    (LastOp = "dumps" /\ prev \in RemoteTrees \cup NestedRemoteTrees
       /\ op.write_remote_mappings /\ ~op.expand_remote_mappings)
        => fs = fs0

(***************************************************************************)
(* The state machine of a load, one nested decoder at a time.  A reference *)
(* is expanded by load_custom_or_remote, which opens the referenced file   *)
(* and runs a new decoder on it inside the call of the decoder that met    *)
(* the reference: todo is the stack of the files being decoded.  The       *)
(* interpreter ends a recursion that is RecursionLimit decoders deep.      *)
(***************************************************************************)
RecursionLimit == 3

DecodeNames == {"c1", "c2", "c3"}
DecodePath(name) == AbsPath(<< <<"r">>, <<name>> >>)
ReferenceDoc(name) ==
    Dict(<<Pair(W("target"), W("v")), Pair(W("k"), Str(<<MARKER, "+", name>>))>>)
DecodeDocs ==
    {Dict(<<Pair(W("x"), W("v"))>>), Dict(<<Pair(W("target"), W("v"))>>)}
    \cup {ReferenceDoc(name) : name \in DecodeNames \cup {"c4"}}
Pending(path) == [path |-> path, child |-> NOTHING]

InitDecode ==
    /\ fs \in [{DecodePath(name) : name \in DecodeNames} -> {JsonFile(d) : d \in DecodeDocs}]
    /\ fs0 = fs
    /\ location = ReconRoot
    /\ \E name \in DecodeNames :
          /\ todo = <<Pending(DecodePath(name))>>
          /\ op = [name |-> "load", source |-> DecodePath(name)]
    /\ given = NOTHING
    /\ text = NOTHING
    /\ val = NOTHING
    /\ prev = NOTHING
    /\ hist = <<"load">>
    /\ err = "none"
    /\ applied = <<>>
    /\ sweep = "running"

Decoding == todo[Len(todo)]
HasReference(doc) == HasKey(doc.pairs, W("k"))
LoadRaises(e) ==
    /\ sweep' = "raised"
    /\ err' = e
    /\ todo' = <<>>
    /\ val' = NOTHING

OpenReference ==
    /\ sweep = "running"
    /\ HasReference(fs[Decoding.path].v)
    /\ Decoding.child = NOTHING
    /\ LET ref == Lookup(fs[Decoding.path].v.pairs, W("k"))
           path == Join(parent(Decoding.path), Path(Drop(ref.s, 2)))
       IN  IF ~exists(fs, path)
           THEN /\ fs' = WriteFile(fs, path, JsonFile(Dict(<<>>)))
                /\ LoadRaises("TypeError")
           ELSE IF Len(todo) = RecursionLimit
           THEN /\ LoadRaises("RecursionError")
                /\ UNCHANGED fs
           ELSE /\ todo' = Append(todo, Pending(path))
                /\ UNCHANGED <<fs, sweep, err, val>>
    /\ UNCHANGED <<location, text, prev, hist, op, fs0, given, applied>>

ReturnDocument ==
    /\ sweep = "running"
    /\ HasReference(fs[Decoding.path].v) => Decoding.child # NOTHING
    /\ LET doc == fs[Decoding.path].v
           decoded == IF Decoding.child # NOTHING
                      THEN Dict(DictSet(doc.pairs, W("k"), Decoding.child))
                      ELSE doc
           r == remote_mapping(Decoding.path, Ok(decoded, fs))
           caller == Len(todo) - 1
       IN  IF caller = 0
           THEN /\ sweep' = "returned"
                /\ val' = decoded
                /\ todo' = <<>>
                /\ UNCHANGED err
           ELSE IF r.err # "none" THEN LoadRaises(r.err)
           ELSE /\ todo' = [SubSeq(todo, 1, caller) EXCEPT ![caller].child = r.v]
                /\ UNCHANGED <<sweep, err, val>>
    /\ UNCHANGED <<fs, location, text, prev, hist, op, fs0, given, applied>>

NextDecode ==
    \/ OpenReference
    \/ ReturnDocument

SpecDecode == InitDecode /\ [][NextDecode]_vars /\ WF_vars(NextDecode)

\* C30: decoding terminates: for every set of documents on disk, documents
\* that reference each other in a cycle or reference themselves included,
\* the load of a top-level document eventually returns a tree or raises a
\* decode error.
DecodingTerminates ==
    <>(sweep = "returned" \/ (sweep = "raised" /\ err # "RecursionError"))

====
